---- MODULE Spec2Model ----
(***************************************************************************)
(* A model of the gfxl source-to-assembly pipeline: Lexer (Lexer.cpp),     *)
(* Parser (Parser.cpp), SemanticAnalyzer (semantic_analyzer.h) and the     *)
(* driver (Main.cpp).                                                      *)
(*                                                                         *)
(* Characters are one-character strings; a std::string is a sequence of    *)
(* characters.  C++ indices are 0-based and are kept 0-based in the state; *)
(* one is added where a TLA+ sequence is indexed.                          *)
(*                                                                         *)
(* A C++ function is an operator from the object's state (and arguments)   *)
(* to the state after the call (and the value returned).  Where a function *)
(* uses an intermediate result several times, the rest of its body is a    *)
(* second operator that takes the result as a parameter; an operator that  *)
(* reads a parameter r0 more than once binds it first, as r.               *)
(***************************************************************************)
EXTENDS Integers, Sequences, FiniteSets, TLC

VARIABLES input_, position_, readPosition_, ch_, lastToken, pc, currentToken_, peekToken_, errors_, windowShifts, program, currentScope, errors, nextStmt, visited, code_gen, generated, output_file, exitStatus

vars == <<input_, position_, readPosition_, ch_, lastToken, pc, currentToken_, peekToken_, errors_, windowShifts, program, currentScope, errors, nextStmt, visited, code_gen, generated, output_file, exitStatus>>

(***************************************************************************)
(* Characters                                                              *)
(***************************************************************************)

\* char{0}: what advance() stores in ch_ at the end of the input
NUL == "NUL"

\* char{1}: what the bool `true` converts to when it is assigned to ch_
SOH == "SOH"

\* (size_t)(0 - 1): the value of position_ after advance() on an empty input.
\* It stands for 2^64 - 1; only its being larger than every index is used.
SIZE_MAX == 2147483647

IsSpace(c) == c \in {" ", "\t", "\n", "\r", "\f"}

IsAlpha(c) == c \in {"a", "b", "c", "d", "e", "f", "g", "h", "i", "j", "k", "l", "m", "n", "o", "p", "q", "r", "s", "t", "u", "v", "w", "x", "y", "z", "A", "B", "C", "D", "E", "F", "G", "H", "I", "J", "K", "L", "M", "N", "O", "P", "Q", "R", "S", "T", "U", "V", "W", "X", "Y", "Z"}

IsDigit(c) == c \in {"0", "1", "2", "3", "4", "5", "6", "7", "8", "9"}

IsAlnum(c) == IsAlpha(c) \/ IsDigit(c)

\* the element of a one-element set: in  The({e : r \in {v}})  the value v
\* is worked out once, however often e uses r
The(S) == CHOOSE y \in S : TRUE

Min(a, b) == IF a < b THEN a ELSE b

\* std::string::substr(pos, n) for pos <= size
Substr(s, pos, n) == SubSeq(s, pos + 1, Min(pos + n, Len(s)))

(***************************************************************************)
(* Lexer.  A lexer is the record of its four fields.                       *)
(***************************************************************************)

Token(type, literal) == [type |-> type, literal |-> literal]

\* Lexer::advance with the bounds check left out: the cursor moves on at the end
AdvanceUnchecked(L0) ==
    The({(
        [L EXCEPT !.ch_ = IF L.readPosition_ < Len(L.input_) THEN L.input_[L.readPosition_ + 1] ELSE NUL,
                  !.readPosition_ = L.readPosition_ + 1,
                  !.position_ = L.readPosition_]
    ) : L \in {L0}})

Advance(L0) ==
    The({(
        LET more == L.readPosition_ < Len(L.input_)
            rp == IF more THEN L.readPosition_ + 1 ELSE L.readPosition_
        IN  [L EXCEPT !.ch_ = IF more THEN L.input_[L.readPosition_ + 1] ELSE NUL,
                      !.readPosition_ = rp,
                      !.position_ = IF rp = 0 THEN SIZE_MAX ELSE rp - 1]
    ) : L \in {L0}})

Peek(L0, ahead) ==
    The({(
        IF L.readPosition_ + ahead < Len(L.input_) THEN L.input_[L.readPosition_ + ahead + 1] ELSE NUL
    ) : L \in {L0}})

\* Lexer::Lexer
LexerNew(input) == Advance([input_ |-> input, position_ |-> 0, readPosition_ |-> 0, ch_ |-> NUL])

RECURSIVE SkipSpaces(_)
SkipSpaces(L) == IF IsSpace(L.ch_) THEN SkipSpaces(Advance(L)) ELSE L

RECURSIVE SkipToEndOfLine(_)
SkipToEndOfLine(L) == IF L.ch_ # "\n" /\ L.ch_ # NUL THEN SkipToEndOfLine(Advance(L)) ELSE L

AdvanceIfNewline(L0) == The({IF L.ch_ = "\n" THEN Advance(L) ELSE L : L \in {L0}})

SkipSinglelineComment(L) == AdvanceIfNewline(SkipToEndOfLine(L))

IsTripleMarker(L0) == The({L.ch_ = "#" /\ Peek(L, 0) = "#" /\ Peek(L, 1) = "#" : L \in {L0}})

RECURSIVE SkipToClosingMarker(_)
SkipToClosingMarker(L) ==
    IF L.ch_ # NUL
    THEN IF IsTripleMarker(L)
         THEN Advance(Advance(Advance(L)))
         ELSE SkipToClosingMarker(Advance(L))
    ELSE L

SkipMultilineComment(L) == SkipToClosingMarker(Advance(Advance(Advance(L))))

RECURSIVE SkipIgnorable(_), SkipComments(_)

\* skipIgnorable after its whitespace loop
SkipComments(L0) ==
    The({(
        IF IsTripleMarker(L) THEN SkipIgnorable(SkipMultilineComment(L))
        ELSE IF L.ch_ = "#" THEN SkipIgnorable(SkipSinglelineComment(L))
        ELSE L
    ) : L \in {L0}})

SkipIgnorable(L) == SkipComments(SkipSpaces(L))

LookupIdent(lit) ==
    IF lit = <<"p", "r", "i", "n", "t">> THEN "PRINT"
    ELSE IF lit = <<"t", "r", "u", "e">> THEN "TRUE"
    ELSE IF lit = <<"f", "a", "l", "s", "e">> THEN "FALSE"
    ELSE "IDENTIFIER"

RECURSIVE SkipToQuote(_)
SkipToQuote(L) == IF L.ch_ # "\"" /\ L.ch_ # NUL THEN SkipToQuote(Advance(L)) ELSE L

\* input_.substr(start, position_ - start)
Slice(L0, start) == The({Substr(L.input_, start, L.position_ - start) : L \in {L0}})

\* readString from `std::string str = ...` on
ReadStringEnd(L0, start) == The({[lexer |-> Advance(L), str |-> Slice(L, start)] : L \in {L0}})

\* readString after its first advance()
ReadStringBody(L0) == The({ReadStringEnd(SkipToQuote(L), L.position_) : L \in {L0}})

ReadString(L) == ReadStringBody(Advance(L))

\* readCharLiteral after its first advance()
ReadCharLiteralBody(L0) ==
    The({(
        IF L.ch_ = NUL THEN [lexer |-> L, str |-> <<>>]
        ELSE [lexer |-> Advance(Advance(L)), str |-> <<L.ch_>>]
    ) : L \in {L0}})

ReadCharLiteral(L) == ReadCharLiteralBody(Advance(L))

RECURSIVE SkipAlnum(_)
SkipAlnum(L) == IF IsAlnum(L.ch_) \/ L.ch_ = "_" THEN SkipAlnum(Advance(L)) ELSE L

RECURSIVE SkipDigits(_)
SkipDigits(L) == IF IsDigit(L.ch_) THEN SkipDigits(Advance(L)) ELSE L

\* The value of   '0' && peek() == 'x' || peek() == 'X'   which the
\* condition of Lexer.cpp:112 ASSIGNS to ch_ ( = , not == ) before testing it.
HexTest(L0) == The({Peek(L, 0) = "x" \/ Peek(L, 0) = "X" : L \in {L0}})

SingleCharToken(c) ==
    CASE c = "=" -> Token("ASSIGN", <<"=">>)
      [] c = "+" -> Token("PLUS", <<"+">>)
      [] c = "-" -> Token("MINUS", <<"-">>)
      [] c = "*" -> Token("ASTERISK", <<"*">>)
      [] c = "/" -> Token("SLASH", <<"/">>)
      [] c = ";" -> Token("SEMICOLON", <<";">>)
      [] c = "(" -> Token("LPAREN", <<"(">>)
      [] c = ")" -> Token("RPAREN", <<")">>)
      [] c = ":" -> Token("COLON", <<":">>)
      [] c = NUL -> Token("END_OF_FILE", <<>>)
      [] OTHER -> Token("ILLEGAL", <<c>>)

\* return { type, input_.substr(start, position_ - start) }
SliceToken(type, L0, start) == The({[lexer |-> L, tok |-> Token(type, Slice(L, start))] : L \in {L0}})

\* the identifier-or-keyword branch of nextToken, after its loop
WordToken(L, lit) == [lexer |-> L, tok |-> Token(LookupIdent(lit), lit)]

\* the identifier-or-keyword branch from `std::string lit = ...` on
IdentifierTokenEnd(L0, start) == The({WordToken(L, Slice(L, start)) : L \in {L0}})

IdentifierToken(L0) == The({IdentifierTokenEnd(SkipAlnum(L), L.position_) : L \in {L0}})

\* the end of the numeric branch: OCTAL for a leading zero, else INT
IntegerToken(L0, lit) ==
    The({(
        IF Len(lit) > 1 /\ lit[1] = "0"
        THEN [lexer |-> L, tok |-> Token("OCTAL", lit)]
        ELSE [lexer |-> L, tok |-> Token("INT", lit)]
    ) : L \in {L0}})

\* the numeric branch after its digit loop
DecimalTokenAfterDigits(L0, start) ==
    The({(
        IF L.ch_ = "." /\ IsDigit(Peek(L, 0))
        THEN SliceToken("FLOAT", SkipDigits(Advance(L)), start)
        ELSE IntegerToken(L, Slice(L, start))
    ) : L \in {L0}})

DecimalToken(L0) == The({DecimalTokenAfterDigits(SkipDigits(L), L.position_) : L \in {L0}})

HexToken(L0) == The({SliceToken("HEX", SkipDigits(Advance(Advance(L))), L.position_) : L \in {L0}})

\* the numeric branch of nextToken: ch_ takes the value of the test, and the
\* hex branch is entered when that value is not zero
NumericToken(L0) ==
    The({(
        IF HexTest(L)
        THEN HexToken([L EXCEPT !.ch_ = SOH])
        ELSE DecimalToken([L EXCEPT !.ch_ = NUL])
    ) : L \in {L0}})

StringToken(r0) == The({[lexer |-> r.lexer, tok |-> Token("STRING", r.str)] : r \in {r0}})

CharToken(r0) == The({[lexer |-> r.lexer, tok |-> Token("CHAR", r.str)] : r \in {r0}})

\* nextToken after skipIgnorable()
ClassifyToken(L0) ==
    The({(
        IF L.ch_ = "\"" THEN StringToken(ReadString(L))
        ELSE IF L.ch_ = "'" THEN CharToken(ReadCharLiteral(L))
        ELSE IF IsAlpha(L.ch_) \/ L.ch_ = "_" THEN IdentifierToken(L)
        ELSE IF IsDigit(L.ch_) THEN NumericToken(L)
        ELSE [lexer |-> Advance(L), tok |-> SingleCharToken(L.ch_)]
    ) : L \in {L0}})

\* Lexer::nextToken: the lexer after the call and the token returned
NextToken(L) == ClassifyToken(SkipIgnorable(L))

(***************************************************************************)
(* std::stoi(str) in base 10: what is thrown, and the value when nothing is *)
(***************************************************************************)

INT_MAX == 2147483647

DigitValue(c) ==
    CASE c = "0" -> 0 [] c = "1" -> 1 [] c = "2" -> 2 [] c = "3" -> 3 [] c = "4" -> 4
      [] c = "5" -> 5 [] c = "6" -> 6 [] c = "7" -> 7 [] c = "8" -> 8 [] c = "9" -> 9

RECURSIVE LeadingDigits(_)
LeadingDigits(s) ==
    IF s # <<>> /\ IsDigit(Head(s)) THEN <<Head(s)>> \o LeadingDigits(Tail(s)) ELSE <<>>

RECURSIVE DropLeadingSpaces(_)
DropLeadingSpaces(s) ==
    IF s # <<>> /\ IsSpace(Head(s)) THEN DropLeadingSpaces(Tail(s)) ELSE s

DropSign(s) == IF s # <<>> /\ Head(s) \in {"+", "-"} THEN Tail(s) ELSE s

RECURSIVE DigitsValue(_, _)
DigitsValue(digits, acc) ==
    IF digits = <<>> THEN acc
    ELSE IF acc > INT_MAX + 1 THEN acc
    ELSE DigitsValue(Tail(digits), acc * 10 + DigitValue(Head(digits)))

\* the conversion once the digits are isolated and their magnitude is known
StoiResult(negative, digits, magnitude0) ==
    The({(
        IF digits = <<>> THEN [thrown |-> "invalid_argument", value |-> 0]
        ELSE IF magnitude > (IF negative THEN INT_MAX + 1 ELSE INT_MAX)
        THEN [thrown |-> "out_of_range", value |-> 0]
        ELSE [thrown |-> "none", value |-> IF negative THEN 0 - magnitude ELSE magnitude]
    ) : magnitude \in {magnitude0}})

StoiDigits(negative, digits0) == The({StoiResult(negative, digits, DigitsValue(digits, 0)) : digits \in {digits0}})

\* the conversion after leading whitespace is skipped
StoiSigned(s0) == The({StoiDigits(s # <<>> /\ Head(s) = "-", LeadingDigits(DropSign(s))) : s \in {s0}})

Stoi(str) == StoiSigned(DropLeadingSpaces(str))

(***************************************************************************)
(* AST nodes (ast.h).  IdentifierExpr declares a member resolvedType of    *)
(* its own next to the one it inherits from Expression: the record keeps   *)
(* both: the inherited one as resolvedType, which is what a pointer to     *)
(* Expression reads, the declared one as IdentifierExpr_resolvedType.      *)
(***************************************************************************)

\* an empty unique_ptr, and the Symbol* / SymbolTable* null pointer
Null == [kind |-> "nullptr"]

IsNull(node) == node = Null

IntegerLiteral(val) == [kind |-> "IntegerLiteral", value |-> val, resolvedType |-> "ILLEGAL"]

\* bool value is kept as the 1 or 0 a C++ bool holds
BooleanLiteral(val) ==
    [kind |-> "BooleanLiteral", value |-> IF val THEN 1 ELSE 0, resolvedType |-> "ILLEGAL"]

IdentifierExpr(n) ==
    [kind |-> "IdentifierExpr", name |-> n, resolvedType |-> "ILLEGAL", IdentifierExpr_resolvedType |-> "ILLEGAL"]

BinaryExpression(l, o, r) ==
    [kind |-> "BinaryExpression", left |-> l, op |-> o, right |-> r, resolvedType |-> "ILLEGAL"]

CommentNode(tok) == [kind |-> "CommentNode", token |-> tok]

ExpressionStatement(expr) == [kind |-> "ExpressionStatement", expression |-> expr]

AssignmentStatement(id, val) == [kind |-> "AssignmentStatement", identifier |-> id, value |-> val]

PrintStatement(expr) == [kind |-> "PrintStatement", expression |-> expr]

\* dynamic_cast<Statement*>(node) succeeds
IsStatement(node) == node.kind \in {"ExpressionStatement", "AssignmentStatement", "PrintStatement"}

(***************************************************************************)
(* Parser.  A parser is the record of its lexer, its two-token window and  *)
(* its error list; windowShifts counts the calls of Parser::nextToken.     *)
(* A parse function yields the parser after the call and the node returned.*)
(***************************************************************************)

LOWEST == 1

SUM == 2

PRODUCT == 3

ASSIGN_PRECEDENCE == 4

\* the precedence map with the SUM and PRODUCT levels exchanged
precedencesSwapped ==
    [ASSIGN |-> ASSIGN_PRECEDENCE, PLUS |-> PRODUCT, MINUS |-> PRODUCT, ASTERISK |-> SUM, SLASH |-> SUM]

precedences ==
    [ASSIGN |-> ASSIGN_PRECEDENCE, PLUS |-> SUM, MINUS |-> SUM, ASTERISK |-> PRODUCT, SLASH |-> PRODUCT]

\* setupParseFunctions: the token types with a registered prefix function
prefixParseFns ==
    [INT |-> "parseIntegerLiteral", IDENTIFIER |-> "parseIdentifier", LPAREN |-> "parseGroupedExpression",
     TRUE |-> "parseBooleanLiteral", FALSE |-> "parseBooleanLiteral"]

\* setupParseFunctions: the token types with a registered infix function
infixParseFns == {"PLUS", "MINUS", "ASTERISK", "SLASH", "ASSIGN"}

IsCommentToken(type) == type \in {"COMMENT_SINGLE_LINE", "COMMENT_MULTI_LINE"}

\* errors_.push_back(msg)
AddParserError(p0, msg) == The({[p EXCEPT !.errors_ = Append(p.errors_, msg)] : p \in {p0}})

\* peekToken_ = lexer_.nextToken(), r being what the lexer's nextToken yields
SetPeekToken(p, r0) == The({[p EXCEPT !.lexer = r.lexer, !.peekToken_ = r.tok] : r \in {r0}})

\* the while loop of Parser::nextToken
RECURSIVE SkipCommentTokens(_)
SkipCommentTokens(p) ==
    IF IsCommentToken(p.peekToken_.type)
    THEN SkipCommentTokens(SetPeekToken(p, NextToken(p.lexer)))
    ELSE p

\* the first two assignments of Parser::nextToken
ShiftWindow(p0, r0) ==
    The({(
        [p EXCEPT !.currentToken_ = p.peekToken_, !.peekToken_ = r.tok, !.lexer = r.lexer,
                  !.windowShifts = p.windowShifts + 1]
    ) : p \in {p0}, r \in {r0}})

\* Parser::nextToken
ParserNextToken(p0) == The({SkipCommentTokens(ShiftWindow(p, NextToken(p.lexer))) : p \in {p0}})

CurrentTokenIs(p, type) == p.currentToken_.type = type

PeekTokenIs(p, type) == p.peekToken_.type = type

\* peekError that records nothing
PeekErrorUnrecorded(p0, type) == p0

PeekError(p0, type) == The({AddParserError(p, <<"Expected next token to be", type, "got", p.peekToken_.type>>) : p \in {p0}})

ExpectPeek(p0, type) ==
    The({(
        IF PeekTokenIs(p, type)
        THEN [p |-> ParserNextToken(p), ok |-> TRUE]
        ELSE [p |-> PeekError(p, type), ok |-> FALSE]
    ) : p \in {p0}})

PeekPrecedence(p0) ==
    The({(
        IF p.peekToken_.type \in DOMAIN precedences THEN precedences[p.peekToken_.type] ELSE LOWEST
    ) : p \in {p0}})

CurrentPrecedence(p0) ==
    The({(
        IF p.currentToken_.type \in DOMAIN precedences THEN precedences[p.currentToken_.type] ELSE LOWEST
    ) : p \in {p0}})

ParseBooleanLiteral(p0) == The({[p |-> p, node |-> BooleanLiteral(p.currentToken_.type = "TRUE")] : p \in {p0}})

ParseIdentifier(p0) == The({[p |-> p, node |-> IdentifierExpr(p.currentToken_.literal)] : p \in {p0}})

\* parseIntegerLiteral given what std::stoi did
IntegerLiteralOrError(p0, conv0) ==
    The({(
        IF conv.thrown = "none" THEN [p |-> p, node |-> IntegerLiteral(conv.value)]
        ELSE IF conv.thrown = "out_of_range"
        THEN [p |-> AddParserError(p, <<"Integer literal out of range", p.currentToken_.literal>>), node |-> Null]
        ELSE [p |-> AddParserError(p, <<"Could not parse as integer", p.currentToken_.literal>>), node |-> Null]
    ) : p \in {p0}, conv \in {conv0}})

ParseIntegerLiteral(p0) == The({IntegerLiteralOrError(p, Stoi(p.currentToken_.literal)) : p \in {p0}})

\* the loop condition of parseExpression with <= in place of <
InfixLoopConditionLeq(p0, prec) == The({~PeekTokenIs(p, "SEMICOLON") /\ prec <= PeekPrecedence(p) : p \in {p0}})

InfixLoopCondition(p0, prec) == The({~PeekTokenIs(p, "SEMICOLON") /\ prec < PeekPrecedence(p) : p \in {p0}})

RECURSIVE ParseExpression(_, _), InfixLoop(_, _, _), AfterOperand(_, _), ParseInfixExpression(_, _)
RECURSIVE ParseGroupedExpression(_)

\* parseGroupedExpression after expectPeek(RPAREN)
GroupedResult(e0, expr) == The({[p |-> e.p, node |-> IF e.ok THEN expr ELSE Null] : e \in {e0}})

\* parseGroupedExpression after parseExpression(LOWEST)
CloseGroup(r0) == The({IF IsNull(r.node) THEN r ELSE GroupedResult(ExpectPeek(r.p, "RPAREN"), r.node) : r \in {r0}})

ParseGroupedExpression(p) == CloseGroup(ParseExpression(ParserNextToken(p), LOWEST))

\* parseInfixExpression after parseExpression(prec) for the right operand
InfixResult(left_expr, op_type, r0) ==
    The({(
        IF IsNull(r.node) THEN r ELSE [p |-> r.p, node |-> BinaryExpression(left_expr, op_type, r.node)]
    ) : r \in {r0}})

ParseInfixExpression(p0, left_expr) ==
    The({(
        InfixResult(left_expr, p.currentToken_.type, ParseExpression(ParserNextToken(p), CurrentPrecedence(p)))
    ) : p \in {p0}})

\* the while loop of parseExpression
InfixLoop(p0, left_expr, prec) ==
    The({(
        IF InfixLoopCondition(p, prec)
        THEN IF p.peekToken_.type \notin infixParseFns
             THEN [p |-> p, node |-> left_expr]
             ELSE AfterOperand(ParseInfixExpression(ParserNextToken(p), left_expr), prec)
        ELSE [p |-> p, node |-> left_expr]
    ) : p \in {p0}})

\* `if (!left_expr) return nullptr;` and on into the loop
AfterOperand(r0, prec) == The({IF IsNull(r.node) THEN r ELSE InfixLoop(r.p, r.node, prec) : r \in {r0}})

\* (this->*prefix_fn)()
CallPrefixFn(fn, p0) ==
    The({(
        CASE fn = "parseIntegerLiteral" -> ParseIntegerLiteral(p)
          [] fn = "parseIdentifier" -> ParseIdentifier(p)
          [] fn = "parseGroupedExpression" -> ParseGroupedExpression(p)
          [] fn = "parseBooleanLiteral" -> ParseBooleanLiteral(p)
    ) : p \in {p0}})

ParseExpression(p0, prec) ==
    The({(
        IF p.currentToken_.type \notin DOMAIN prefixParseFns
        THEN [p |-> AddParserError(p, <<"No prefix parse function for", p.currentToken_.type>>), node |-> Null]
        ELSE AfterOperand(CallPrefixFn(prefixParseFns[p.currentToken_.type], p), prec)
    ) : p \in {p0}})

\* the statement parsers with the optional semicolon never consumed
ConsumeOptionalSemicolonNever(p) == p

\* if (peekTokenIs(SEMICOLON)) nextToken();
ConsumeOptionalSemicolon(p0) == The({IF PeekTokenIs(p, "SEMICOLON") THEN ParserNextToken(p) ELSE p : p \in {p0}})

\* parseAssignmentStatement after parseExpression(LOWEST)
AssignmentResult(identifier_expr, r0) ==
    The({(
        IF IsNull(r.node) THEN r
        ELSE [p |-> ConsumeOptionalSemicolon(r.p), node |-> AssignmentStatement(identifier_expr, r.node)]
    ) : r \in {r0}})

\* parseAssignmentStatement after expectPeek(ASSIGN)
AssignmentAfterAssign(identifier_expr, e0) ==
    The({(
        IF ~e.ok THEN [p |-> e.p, node |-> Null]
        ELSE AssignmentResult(identifier_expr, ParseExpression(ParserNextToken(e.p), LOWEST))
    ) : e \in {e0}})

ParseAssignmentStatement(p0) ==
    The({(
        AssignmentAfterAssign(IdentifierExpr(p.currentToken_.literal), ExpectPeek(p, "ASSIGN"))
    ) : p \in {p0}})

\* parseExpressionStatement after parseExpression(LOWEST)
ExpressionStatementResult(r0) ==
    The({(
        IF IsNull(r.node) THEN r
        ELSE [p |-> ConsumeOptionalSemicolon(r.p), node |-> ExpressionStatement(r.node)]
    ) : r \in {r0}})

ParseExpressionStatement(p) == ExpressionStatementResult(ParseExpression(p, LOWEST))

\* parsePrintStatement after parseExpression(LOWEST)
PrintStatementResult(r0) ==
    The({(
        IF IsNull(r.node) THEN r
        ELSE [p |-> ConsumeOptionalSemicolon(r.p), node |-> PrintStatement(r.node)]
    ) : r \in {r0}})

ParsePrintStatement(p) == PrintStatementResult(ParseExpression(ParserNextToken(p), LOWEST))

ParseStatement(p0) ==
    The({(
        IF CurrentTokenIs(p, "PRINT") THEN ParsePrintStatement(p)
        ELSE IF CurrentTokenIs(p, "IDENTIFIER") /\ PeekTokenIs(p, "ASSIGN") THEN ParseAssignmentStatement(p)
        ELSE ParseExpressionStatement(p)
    ) : p \in {p0}})

ParseTopLevelNode(p0) ==
    The({(
        IF IsCommentToken(p.currentToken_.type)
        THEN [p |-> p, node |-> CommentNode(p.currentToken_)]
        ELSE ParseStatement(p)
    ) : p \in {p0}})

\* the body of parseProgram's loop without its closing nextToken()
LoopAdvanceMissing(p) == p

\* the nextToken() that closes the body of parseProgram's loop
LoopAdvance(p) == ParserNextToken(p)

\* the body of parseProgram's loop after parseTopLevelNode()
IterationResult(r0, statements) ==
    The({(
        [p |-> LoopAdvance(r.p),
         statements |-> IF ~IsNull(r.node) /\ IsStatement(r.node) THEN Append(statements, r.node) ELSE statements]
    ) : r \in {r0}})

\* one iteration of the loop of parseProgram
ParseProgramIteration(p, statements) == IterationResult(ParseTopLevelNode(p), statements)

RECURSIVE ParseProgramLoop(_, _)

\* `while (...) {body}` of parseProgram given the state after one body
ParseProgramRest(r0) == The({ParseProgramLoop(r.p, r.statements) : r \in {r0}})

ParseProgramLoop(p0, statements) ==
    The({(
        IF p.currentToken_.type # "END_OF_FILE"
        THEN ParseProgramRest(ParseProgramIteration(p, statements))
        ELSE [p |-> p, statements |-> statements]
    ) : p \in {p0}})

\* Parser::Parser
ParserNew(lexer) ==
    ParserNextToken(ParserNextToken(
        [lexer |-> lexer, currentToken_ |-> Token("ILLEGAL", <<>>), peekToken_ |-> Token("ILLEGAL", <<>>),
         errors_ |-> <<>>, windowShifts |-> 0]))

\* Main.cpp: Lexer lexer(input); Parser parser(lexer); parser.parseProgram();
ParseSource(input) == ParseProgramLoop(ParserNew(LexerNew(input)), <<>>)

(***************************************************************************)
(* SymbolTable (symbol_table.h) and SemanticAnalyzer (semantic_analyzer.h).*)
(* An analyzer is the record of its scope and its error list; a visit      *)
(* yields the analyzer after the call and the node as annotated.           *)
(***************************************************************************)

SymbolEntry(n, st, tt) == [name |-> n, type |-> st, declaredTokenType |-> tt]

\* SymbolTable::SymbolTable(): store is a map from names to entries
SymbolTableNew == [store |-> <<>>, outer |-> Null]

\* SymbolTable::define (the bool it returns is not used by any caller)
Define(table, name, symType, declaredType) ==
    IF name \in DOMAIN table.store THEN table
    ELSE [table EXCEPT !.store = (name :> SymbolEntry(name, symType, declaredType)) @@ table.store]

RECURSIVE Resolve(_, _)
Resolve(table, name) ==
    IF name \in DOMAIN table.store THEN table.store[name]
    ELSE IF ~IsNull(table.outer) THEN Resolve(table.outer, name)
    ELSE Null

\* SemanticAnalyzer::addError
AddError(a0, msg) == The({[a EXCEPT !.errors = Append(a.errors, msg)] : a \in {a0}})

\* currentScope->define(name, SYM_VAR, declaredType)
DefineVar(a0, name, declaredType) ==
    The({(
        [a EXCEPT !.currentScope = Define(a.currentScope, name, "SYM_VAR", declaredType)]
    ) : a \in {a0}})

VisitIntegerLiteral(a0, node) == The({[a |-> a, node |-> [node EXCEPT !.resolvedType = "INT"]] : a \in {a0}})

VisitBooleanLiteral(a0, node) == The({[a |-> a, node |-> [node EXCEPT !.resolvedType = "BOOL"]] : a \in {a0}})

\* visit(IdentifierExpr&) that reports nothing for a name it does not find
IdentifierResolvedSilently(a0, node, entry0) ==
    The({(
        [a |-> a,
         node |-> [node EXCEPT !.IdentifierExpr_resolvedType =
                                   IF IsNull(entry) THEN "ILLEGAL" ELSE entry.declaredTokenType]]
    ) : a \in {a0}, entry \in {entry0}})

\* visit(IdentifierExpr&) once the name is looked up: node.resolvedType names
\* the member IdentifierExpr declares, not the one inherited from Expression
IdentifierResolved(a0, node, entry0) ==
    The({(
        IF IsNull(entry)
        THEN [a |-> AddError(a, <<"Undefined variable", node.name>>),
              node |-> [node EXCEPT !.IdentifierExpr_resolvedType = "ILLEGAL"]]
        ELSE [a |-> a, node |-> [node EXCEPT !.IdentifierExpr_resolvedType = entry.declaredTokenType]]
    ) : a \in {a0}, entry \in {entry0}})

VisitIdentifierExpr(a0, node) == The({IdentifierResolved(a, node, Resolve(a.currentScope, node.name)) : a \in {a0}})

\* the dynamic_cast chain of visit(BinaryExpression&) that types an operand
OperandType(operand) ==
    IF operand.kind = "IdentifierExpr" THEN operand.IdentifierExpr_resolvedType
    ELSE IF operand.kind = "IntegerLiteral" THEN "INT"
    ELSE IF operand.kind = "BinaryExpression" THEN operand.resolvedType
    ELSE "ILLEGAL"

\* the type visit(BinaryExpression&) gives the node before its division check
ArithmeticType(leftType, rightType) ==
    IF leftType = "ILLEGAL" \/ rightType = "ILLEGAL" THEN "ILLEGAL"
    ELSE IF leftType # "INT" \/ rightType # "INT" THEN "ILLEGAL"
    ELSE "INT"

\* a report of non-integer operands that does not look whether an operand is
\* already invalid
OperandErrorRepeated(leftType, rightType) == leftType # "INT" \/ rightType # "INT"

\* whether visit(BinaryExpression&) reports non-integer operands
OperandError(leftType, rightType) ==
    leftType # "ILLEGAL" /\ rightType # "ILLEGAL" /\ (leftType # "INT" \/ rightType # "INT")

\* visit(BinaryExpression&) without its division check
DivisionCheckSkipped(r0) == r0

\* if (node.op == SLASH) ... at the end of visit(BinaryExpression&)
DivisionCheck(r0) ==
    The({(
        IF r.node.op = "SLASH" /\ r.node.right.kind = "IntegerLiteral" /\ r.node.right.value = 0
        THEN [a |-> AddError(r.a, <<"Division by zero detected">>), node |-> [r.node EXCEPT !.resolvedType = "ILLEGAL"]]
        ELSE r
    ) : r \in {r0}})

\* visit(BinaryExpression&) from the operand types to the division check
BinaryTyped(a0, node, leftType, rightType) ==
    The({(
        [a |-> IF OperandError(leftType, rightType)
               THEN AddError(a, <<"Arithmetic operator expects integer operands", node.op>>)
               ELSE a,
         node |-> [node EXCEPT !.resolvedType = ArithmeticType(leftType, rightType)]]
    ) : a \in {a0}})

RECURSIVE Accept(_, _), VisitBinaryExpression(_, _)

\* visit(BinaryExpression&) after node.right->accept(*this)
BinaryAfterRight(node, r0) ==
    The({(
        DivisionCheck(BinaryTyped(r.a, [node EXCEPT !.right = r.node], OperandType(node.left), OperandType(r.node)))
    ) : r \in {r0}})

\* visit(BinaryExpression&) after node.left->accept(*this)
BinaryAfterLeft(node, l0) == The({BinaryAfterRight([node EXCEPT !.left = l.node], Accept(l.a, node.right)) : l \in {l0}})

VisitBinaryExpression(a, node) == BinaryAfterLeft(node, Accept(a, node.left))

\* node.identifier->resolvedType = type, with the node that results
SetIdentifierType(a0, node, type) ==
    The({(
        [a |-> a, node |-> [node EXCEPT !.identifier.IdentifierExpr_resolvedType = type]]
    ) : a \in {a0}})

\* visit(AssignmentStatement&) from `if (!entry)` on
AssignmentResolved(a0, node, valueType, entry0) ==
    The({(
        IF IsNull(entry)
        THEN IF valueType = "ILLEGAL"
             THEN SetIdentifierType(
                      DefineVar(AddError(a, <<"Attempting to define variable with an unresolved type", node.identifier.name>>),
                                node.identifier.name, "ILLEGAL"),
                      node, "ILLEGAL")
             ELSE SetIdentifierType(DefineVar(a, node.identifier.name, valueType), node, valueType)
        ELSE IF entry.declaredTokenType # valueType
             THEN IF valueType = "ILLEGAL"
                  THEN SetIdentifierType(
                           AddError(a, <<"Assignment value has an unresolved type", node.identifier.name>>), node, "ILLEGAL")
                  ELSE SetIdentifierType(
                           AddError(a, <<"Type mismatch in assignment", node.identifier.name>>), node, "ILLEGAL")
             ELSE SetIdentifierType(a, node, entry.declaredTokenType)
    ) : a \in {a0}, entry \in {entry0}})

\* visit(AssignmentStatement&) after node.value->accept(*this): valueType is
\* read through the pointer to Expression
AssignmentAfterValue(node, v0) ==
    The({(
        AssignmentResolved(v.a, [node EXCEPT !.value = v.node], v.node.resolvedType,
                           Resolve(v.a.currentScope, node.identifier.name))
    ) : v \in {v0}})

VisitAssignmentStatement(a, node) == AssignmentAfterValue(node, Accept(a, node.value))

\* visit(ExpressionStatement&) after node.expression->accept(*this)
ExpressionStatementVisited(node, e0) == The({[a |-> e.a, node |-> [node EXCEPT !.expression = e.node]] : e \in {e0}})

\* visit(ExpressionStatement&) that leaves the expression alone
VisitExpressionStatementSkipped(a, node) == [a |-> a, node |-> node]

VisitExpressionStatement(a, node) == ExpressionStatementVisited(node, Accept(a, node.expression))

\* visit(PrintStatement&) after node.expression->accept(*this)
PrintStatementVisited(node, e0) ==
    The({(
        [a |-> IF e.node.resolvedType = "ILLEGAL"
               THEN AddError(e.a, <<"PRINT statement argument has an unresolved or invalid type">>)
               ELSE e.a,
         node |-> [node EXCEPT !.expression = e.node]]
    ) : e \in {e0}})

VisitPrintStatement(a, node) == PrintStatementVisited(node, Accept(a, node.expression))

\* node.accept(visitor): the double dispatch of ast.cpp.  visited is the
\* history of these calls: the nodes accept was called on, in the order of
\* the calls, each as it was at the call
Accept(a0, node) ==
    The({(
        CASE node.kind = "IntegerLiteral" -> VisitIntegerLiteral(a, node)
          [] node.kind = "BooleanLiteral" -> VisitBooleanLiteral(a, node)
          [] node.kind = "IdentifierExpr" -> VisitIdentifierExpr(a, node)
          [] node.kind = "BinaryExpression" -> VisitBinaryExpression(a, node)
          [] node.kind = "AssignmentStatement" -> VisitAssignmentStatement(a, node)
          [] node.kind = "ExpressionStatement" -> VisitExpressionStatement(a, node)
          [] node.kind = "PrintStatement" -> VisitPrintStatement(a, node)
    ) : a \in {[a0 EXCEPT !.visited = Append(a0.visited, node)]}})

(***************************************************************************)
(* CodeGenerator (Codegen.cpp).  A generator is the record of its fields;  *)
(* ss is the list of the lines written to the stream, each without its     *)
(* line end.  Texts are sequences of characters, as in the lexer.  The     *)
(* functions return nothing and leave the tree alone: each is an operator  *)
(* from the generator before the call to the generator after it.           *)
(***************************************************************************)

\* the digits std::to_string writes
DecimalDigit(d) == <<"0", "1", "2", "3", "4", "5", "6", "7", "8", "9">>[d + 1]

RECURSIVE DecimalDigits(_)
DecimalDigits(n) == IF n < 10 THEN <<DecimalDigit(n)>> ELSE DecimalDigits(n \div 10) \o <<DecimalDigit(n % 10)>>

\* std::to_string(int)
to_string(n) == IF n < 0 THEN <<"-">> \o DecimalDigits(-n) ELSE DecimalDigits(n)

tokenTypeStrings ==
       ("ILLEGAL" :> <<"I", "L", "L", "E", "G", "A", "L">>)
    @@ ("END_OF_FILE" :> <<"E", "O", "F">>)
    @@ ("IDENTIFIER" :> <<"I", "D", "E", "N", "T", "I", "F", "I", "E", "R">>)
    @@ ("INT" :> <<"I", "N", "T">>)
    @@ ("BOOL" :> <<"B", "O", "O", "L">>)
    @@ ("FLOAT" :> <<"F", "L", "O", "A", "T">>)
    @@ ("STRING" :> <<"S", "T", "R", "I", "N", "G">>)
    @@ ("CHAR" :> <<"C", "H", "A", "R">>)
    @@ ("ASSIGN" :> <<"A", "S", "S", "I", "G", "N">>)
    @@ ("COLON" :> <<"C", "O", "L", "O", "N">>)
    @@ ("OCTAL" :> <<"O", "C", "T", "A", "L">>)
    @@ ("HEX" :> <<"H", "E", "X">>)
    @@ ("PLUS" :> <<"P", "L", "U", "S">>)
    @@ ("MINUS" :> <<"M", "I", "N", "U", "S">>)
    @@ ("ASTERISK" :> <<"A", "S", "T", "E", "R", "I", "S", "K">>)
    @@ ("SLASH" :> <<"S", "L", "A", "S", "H">>)
    @@ ("SEMICOLON" :> <<"S", "E", "M", "I", "C", "O", "L", "O", "N">>)
    @@ ("LPAREN" :> <<"L", "P", "A", "R", "E", "N">>)
    @@ ("RPAREN" :> <<"R", "P", "A", "R", "E", "N">>)
    @@ ("PRINT" :> <<"P", "R", "I", "N", "T">>)
    @@ ("TRUE" :> <<"T", "R", "U", "E">>)
    @@ ("FALSE" :> <<"F", "A", "L", "S", "E">>)
    @@ ("COMMENT_MULTI_LINE" :> <<"C", "O", "M", "M", "E", "N", "T", "_", "M", "U", "L", "T", "I", "_", "L", "I", "N", "E">>)
    @@ ("COMMENT_SINGLE_LINE" :> <<"C", "O", "M", "M", "E", "N", "T", "_", "S", "I", "N", "G", "L", "E", "_", "L", "I", "N", "E">>)

CodegenSymbol(offset, symType) == [stackOffset |-> offset, type |-> symType]

Platforms == {"PLATFORM_LINUX", "PLATFORM_WINDOWS_MINGW", "PLATFORM_MACOS"}

\* the members as the constructor's initialiser list leaves them
CodeGeneratorUnset ==
    [errors_ |-> <<>>, ss |-> <<>>, symbolTable_ |-> <<>>, stackOffsetCounter_ |-> 0,
     targetPlatform_ |-> "PLATFORM_UNKNOWN"]

\* CodeGenerator::CodeGenerator() in a build for the platform
CodeGeneratorNew(platform) == [CodeGeneratorUnset EXCEPT !.targetPlatform_ = platform]

error(g0, msg) == The({[g EXCEPT !.errors_ = Append(g.errors_, msg)] : g \in {g0}})

\* ss << text << "\n"
WriteLine(g0, text) == The({[g EXCEPT !.ss = Append(g.ss, text)] : g \in {g0}})

emit(g, instruction) == WriteLine(g, <<" ", " ">> \o instruction)

emitComment(g0, comment) ==
    The({(
        IF g.targetPlatform_ \in {"PLATFORM_LINUX", "PLATFORM_WINDOWS_MINGW", "PLATFORM_MACOS"}
        THEN WriteLine(g, <<" ", " ", "#", " ">> \o comment)
        ELSE g
    ) : g \in {g0}})

\* the four lines both branches of emitMainPrologue begin with, and the two
\* instructions after them
PrologueHead(g) ==
    emit(emit(WriteLine(WriteLine(WriteLine(WriteLine(g,
        <<".", "i", "n", "t", "e", "l", "_", "s", "y", "n", "t", "a", "x", " ", "n", "o", "p", "r", "e", "f", "i", "x">>),
        <<".", "g", "l", "o", "b", "l", " ", "m", "a", "i", "n">>),
        <<".", "t", "e", "x", "t">>),
        <<"m", "a", "i", "n", ":">>),
        <<"p", "u", "s", "h", " ", "r", "b", "p">>),
        <<"m", "o", "v", " ", "r", "b", "p", ",", " ", "r", "s", "p">>)

emitMainPrologue(g0) ==
    The({(
        IF g.targetPlatform_ \in {"PLATFORM_LINUX", "PLATFORM_MACOS"} THEN PrologueHead(g)
        ELSE IF g.targetPlatform_ = "PLATFORM_WINDOWS_MINGW" THEN emit(PrologueHead(g), <<"s", "u", "b", " ", "r", "s", "p", ",", " ", "3", "2">>)
        ELSE error(g, <<"Codegen Init: Cannot emit prologue for unknown platform.">>)
    ) : g \in {g0}})

\* a deallocation of one slot however many were reserved
EpilogueDeallocateOneSlot(g0) == emit(g0, <<"a", "d", "d", " ", "r", "s", "p", ",", " ", "8">>)

\* if (stackOffsetCounter_ < 0) emit("add rsp, " + ...)
EpilogueDeallocate(g0) ==
    The({(
        IF g.stackOffsetCounter_ < 0 THEN emit(g, <<"a", "d", "d", " ", "r", "s", "p", ",", " ">> \o to_string(-g.stackOffsetCounter_)) ELSE g
    ) : g \in {g0}})

\* the four instructions both branches of emitMainEpilogue end with
EpilogueTail(g) == emit(emit(emit(emit(g, <<"m", "o", "v", " ", "r", "s", "p", ",", " ", "r", "b", "p">>), <<"p", "o", "p", " ", "r", "b", "p">>), <<"m", "o", "v", " ", "e", "a", "x", ",", " ", "0">>), <<"r", "e", "t">>)

emitMainEpilogue(g0) ==
    The({(
        IF g.targetPlatform_ \in {"PLATFORM_LINUX", "PLATFORM_MACOS"}
        THEN EpilogueTail(EpilogueDeallocate(emitComment(g, <<"M", "a", "i", "n", " ", "E", "p", "i", "l", "o", "g", "u", "e">>)))
        ELSE IF g.targetPlatform_ = "PLATFORM_WINDOWS_MINGW"
        THEN EpilogueTail(emit(EpilogueDeallocate(emitComment(g, <<"M", "a", "i", "n", " ", "E", "p", "i", "l", "o", "g", "u", "e">>)), <<"a", "d", "d", " ", "r", "s", "p", ",", " ", "3", "2">>))
        ELSE error(g, <<"Codegen Finalize: Cannot emit epilogue for unknown platform.">>)
    ) : g \in {g0}})

getRegisterPart(type, baseReg) ==
    IF baseReg = <<>> THEN <<>>
    ELSE IF type = "BOOL"
    THEN IF Len(baseReg) > 1 /\ baseReg[1] = "r" THEN <<baseReg[1]>> \o <<"l">> \o SubSeq(baseReg, 2, Len(baseReg))
         ELSE IF Len(baseReg) = 1 THEN baseReg
         ELSE <<>>
    ELSE baseReg

getRegSize(type) ==
    IF type = "INT" THEN <<"q", "w", "o", "r", "d">>
    ELSE IF type = "BOOL" THEN <<"b", "y", "t", "e">>
    ELSE <<"q", "w", "o", "r", "d">>

getArgRegister(g, argIndex) ==
    IF g.targetPlatform_ \in {"PLATFORM_LINUX", "PLATFORM_MACOS"} /\ argIndex \in 0..5
    THEN <<<<"r", "d", "i">>, <<"r", "s", "i">>, <<"r", "d", "x">>, <<"r", "c", "x">>, <<"r", "8">>, <<"r", "9">>>>[argIndex + 1]
    ELSE IF g.targetPlatform_ = "PLATFORM_WINDOWS_MINGW" /\ argIndex \in 0..3
    THEN <<<<"r", "c", "x">>, <<"r", "d", "x">>, <<"r", "8">>, <<"r", "9">>>>[argIndex + 1]
    ELSE <<>>

\* the call instruction of emitPrintInteger / emitPrintBoolean
CallHelper(g0, helper) ==
    The({(
        IF g.targetPlatform_ = "PLATFORM_MACOS" THEN emit(g, <<"c", "a", "l", "l", " ", "_">> \o helper) ELSE emit(g, <<"c", "a", "l", "l", " ">> \o helper)
    ) : g \in {g0}})

\* emitPrintInteger after its comment
PrintIntegerCall(g0, valueReg) ==
    The({(
        CallHelper(emit(g, <<"m", "o", "v", " ">> \o getArgRegister(g, 0) \o <<",", " ">> \o getRegisterPart("INT", valueReg)),
                   <<"p", "r", "i", "n", "t", "_", "i", "n", "t">>)
    ) : g \in {g0}})

emitPrintInteger(g, valueReg) == PrintIntegerCall(emitComment(g, <<"C", "a", "l", "l", " ", "p", "r", "i", "n", "t", "_", "i", "n", "t">>), valueReg)

\* emitPrintBoolean after its comment
PrintBooleanCall(g0, valueReg) ==
    The({(
        CallHelper(emit(g, <<"m", "o", "v", " ">> \o getArgRegister(g, 0) \o <<",", " ">> \o getRegisterPart("BOOL", valueReg)),
                   <<"p", "r", "i", "n", "t", "_", "b", "o", "o", "l">>)
    ) : g \in {g0}})

emitPrintBoolean(g, valueReg) == PrintBooleanCall(emitComment(g, <<"C", "a", "l", "l", " ", "p", "r", "i", "n", "t", "_", "b", "o", "o", "l">>), valueReg)

getSymbol(g, name) == IF name \in DOMAIN g.symbolTable_ THEN g.symbolTable_[name] ELSE Null

\* defineVariable from `stackOffsetCounter_ -= 8` on; offset is the counter
\* after the subtraction
VariableDefined(g0, name, type, offset) ==
    The({(
        emit([g EXCEPT !.stackOffsetCounter_ = offset,
                       !.symbolTable_ = (name :> CodegenSymbol(offset, type)) @@ g.symbolTable_],
             <<"s", "u", "b", " ", "r", "s", "p", ",", " ", "8">>)
    ) : g \in {g0}})

defineVariable(g0, name, type) ==
    The({(
        IF name \in DOMAIN g.symbolTable_
        THEN error(g, <<"Internal Codegen Error: Variable redefined in codegen symbol table.", name>>)
        ELSE VariableDefined(g, name, type, g.stackOffsetCounter_ - 8)
    ) : g \in {g0}})

visitIntegerLiteral(g, node) ==
    emit(emitComment(g, <<"I", "n", "t", "e", "g", "e", "r", " ", "L", "i", "t", "e", "r", "a", "l", ":", " ">> \o to_string(node.value)), <<"m", "o", "v", " ", "r", "a", "x", ",", " ">> \o to_string(node.value))

\* the comment is ("Boolean Literal: " + node->value) ? "true" : "false": the
\* sum is a pointer into the literal, never null
visitBooleanLiteral(g, node) ==
    emit(emit(emitComment(g, <<"t", "r", "u", "e">>), <<"m", "o", "v", " ", "a", "l", ",", " ">> \o to_string(IF node.value # 0 THEN 1 ELSE 0)),
         <<"m", "o", "v", "z", "x", " ", "r", "a", "x", ",", " ", "a", "l">>)

\* "mov <size> ptr [rbp<offset>], <register>"
SlotInstruction(symType, offset) ==
    <<"m", "o", "v", " ">> \o getRegSize(symType) \o <<" ", "p", "t", "r", " ", "[", "r", "b", "p">> \o to_string(offset) \o <<"]", ",", " ">>
        \o getRegisterPart(symType, <<"r", "a", "x">>)

\* visitIdentifierExpr after its comment, symbol being getSymbol(node->name)
IdentifierEmitted(g0, node, symbol0) ==
    The({(
        IF IsNull(symbol) THEN error(g, <<"Codegen Error: Undefined variable used", node.name>>)
        ELSE emit(g, SlotInstruction(symbol.type, symbol.stackOffset))
    ) : g \in {g0}, symbol \in {symbol0}})

visitIdentifierExpr(g0, node) ==
    The({IdentifierEmitted(g, node, getSymbol(g, node.name)) : g \in {emitComment(g0, <<"I", "d", "e", "n", "t", "i", "f", "i", "e", "r", ":", " ">> \o node.name)}})

\* emit("push rax"); stackOffsetCounter_ += 8;
PushRax(g0) == The({emit([g EXCEPT !.stackOffsetCounter_ = g.stackOffsetCounter_ + 8], <<"p", "u", "s", "h", " ", "r", "a", "x">>) : g \in {g0}})

\* emit("pop rbx") that leaves stackOffsetCounter_ as the push left it
PopRbxUnaccounted(g0) == emit(g0, <<"p", "o", "p", " ", "r", "b", "x">>)

\* emit("pop rbx"); stackOffsetCounter_ -= 8;
PopRbx(g0) == The({emit([g EXCEPT !.stackOffsetCounter_ = g.stackOffsetCounter_ - 8], <<"p", "o", "p", " ", "r", "b", "x">>) : g \in {g0}})

\* a switch that emits an addition whatever the operator
OperatorTakenForPlus(g0, op) == emit(g0, <<"a", "d", "d", " ", "r", "a", "x", ",", " ", "r", "b", "x">>)

\* the switch of visitBinaryExpression
OperatorEmitted(g0, op) ==
    The({(
        CASE op = "PLUS" -> emit(g, <<"a", "d", "d", " ">> \o getRegisterPart("INT", <<"r", "a", "x">>) \o <<",", " ">> \o getRegisterPart("INT", <<"r", "b", "x">>))
          [] op = "MINUS" -> emit(g, <<"s", "u", "b", " ">> \o getRegisterPart("INT", <<"r", "a", "x">>) \o <<",", " ">> \o getRegisterPart("INT", <<"r", "b", "x">>))
          [] op = "ASTERISK" -> emit(g, <<"i", "m", "u", "l", " ">> \o getRegisterPart("INT", <<"r", "b", "x">>))
          [] op = "SLASH" -> emit(emit(g, <<"c", "q", "o">>), <<"i", "d", "i", "v", " ">> \o getRegisterPart("INT", <<"r", "b", "x">>))
          [] OTHER -> error(g, <<"Unhandled binary operator in code generation", tokenTypeStrings[op]>>)
    ) : g \in {g0}})

RECURSIVE visitExpression(_, _), visitBinaryExpression(_, _)

\* visitBinaryExpression: the right operand, push, the left operand, pop, the
\* operator; leftReg, rightReg and resultType are computed and not used
visitBinaryExpression(g, node) ==
    OperatorEmitted(
        PopRbx(visitExpression(
            PushRax(visitExpression(
                emitComment(g, <<"B", "i", "n", "a", "r", "y", " ", "E", "x", "p", "r", "e", "s", "s", "i", "o", "n", ":", " ">> \o tokenTypeStrings[node.op]),
                node.right)),
            node.left)),
        node.op)

visitExpression(g0, node) ==
    The({(
        CASE node.kind = "IntegerLiteral" -> visitIntegerLiteral(g, node)
          [] node.kind = "BooleanLiteral" -> visitBooleanLiteral(g, node)
          [] node.kind = "IdentifierExpr" -> visitIdentifierExpr(g, node)
          [] node.kind = "BinaryExpression" -> visitBinaryExpression(g, node)
          [] OTHER -> error(g, <<"Unhandled expression type in codegen dispatcher.">>)
    ) : g \in {g0}})

\* visitAssignmentStatement from the defensive check on, symbol being the
\* second getSymbol(node->identifier->name)
AssignmentStored(g0, node, valueType, symbol0) ==
    The({(
        IF IsNull(symbol)
        THEN error(g, <<"Internal Codegen Error: Failed to get symbol after definition.", node.identifier.name>>)
        ELSE emit(g, <<"m", "o", "v", " ">> \o getRegSize(valueType) \o <<" ", "p", "t", "r", " ", "[", "r", "b", "p">> \o to_string(symbol.stackOffset)
                         \o <<"]", ",", " ">> \o getRegisterPart(valueType, <<"r", "a", "x">>))
    ) : g \in {g0}, symbol \in {symbol0}})

\* visitAssignmentStatement once the slot exists
AssignmentSlotReady(g0, node, valueType) ==
    The({AssignmentStored(g, node, valueType, getSymbol(g, node.identifier.name)) : g \in {g0}})

\* visitAssignmentStatement after visitExpression(node->value.get()):
\* valueType is read through the pointer to Expression
AssignmentValueEmitted(g0, node, valueType) ==
    The({(
        IF IsNull(getSymbol(g, node.identifier.name))
        THEN AssignmentSlotReady(defineVariable(g, node.identifier.name, valueType), node, valueType)
        ELSE AssignmentSlotReady(g, node, valueType)
    ) : g \in {g0}})

visitAssignmentStatement(g, node) ==
    AssignmentValueEmitted(
        visitExpression(emitComment(g, <<"A", "s", "s", "i", "g", "n", "m", "e", "n", "t", ":", " ">> \o node.identifier.name), node.value),
        node, node.value.resolvedType)

visitExpressionStatement(g, node) == visitExpression(emitComment(g, <<"E", "x", "p", "r", "e", "s", "s", "i", "o", "n", " ", "S", "t", "a", "t", "e", "m", "e", "n", "t">>), node.expression)

\* visitPrintStatement after visitExpression(node->expression.get())
PrintHelperCalled(g0, exprType) ==
    The({(
        IF exprType = "INT" THEN emitPrintInteger(g, <<"r", "a", "x">>)
        ELSE IF exprType = "BOOL" THEN emitPrintBoolean(g, <<"r", "a", "x">>)
        ELSE error(g, <<"Attempting to print an unsupported type", tokenTypeStrings[exprType]>>)
    ) : g \in {g0}})

visitPrintStatement(g, node) ==
    PrintHelperCalled(visitExpression(emitComment(g, <<"P", "r", "i", "n", "t", " ", "S", "t", "a", "t", "e", "m", "e", "n", "t">>), node.expression),
                      node.expression.resolvedType)

visitStatement(g0, node) ==
    The({(
        CASE node.kind = "AssignmentStatement" -> visitAssignmentStatement(g, node)
          [] node.kind = "ExpressionStatement" -> visitExpressionStatement(g, node)
          [] node.kind = "PrintStatement" -> visitPrintStatement(g, node)
          [] OTHER -> error(g, <<"Unhandled statement type in codegen dispatcher.">>)
    ) : g \in {g0}})

(***************************************************************************)
(* Source texts the model is run on                                        *)
(***************************************************************************)

MaxLexemes == 3

MaxStatements == 2

MaxChunks == 3

RECURSIVE Concatenations(_, _)
\* the texts made of at most k of the pieces, in any order
Concatenations(pieces, k) ==
    IF k = 0 THEN {<<>>}
    ELSE {<<>>} \cup {piece \o rest : piece \in pieces, rest \in Concatenations(pieces, k - 1)}

Lexemes ==
    {<<"a">>, <<"1">>, <<"=">>, <<"+">>, <<"*">>, <<";">>, <<"(">>, <<")">>, <<"\n">>,
     <<"t", "r", "u", "e">>, <<"p", "r", "i", "n", "t", " ">>}

\* arbitrary token soup, well-formed or not
LexemeSources == Concatenations(Lexemes, MaxLexemes)

Operators == {"+", "-", "*", "/", "="}

Terminators == {<<>>, <<";">>, <<"\n">>}

\* a o1 b o2 c
ExpressionSources ==
    {<<"a", o1, "b", o2, "c">> \o end : o1 \in Operators, o2 \in Operators, end \in Terminators}

\* one statement of each form, over identifiers, booleans, operators and parentheses
StatementTexts ==
    {<<"a", "=", "t", "r", "u", "e">>, <<"b", "=", "a">>, <<"p", "r", "i", "n", "t", " ", "a">>,
     <<"p", "r", "i", "n", "t", " ", "(", "a", "+", "b", ")">>, <<"a">>, <<"a", "*", "b", "+", "a">>,
     <<"(", "a", ")">>}

\* a statement on a line of its own, with or without its trailing semicolon
StatementLines == {text \o end : text \in StatementTexts, end \in {<<";", "\n">>, <<"\n">>}}

StatementSources == Concatenations(StatementLines, MaxStatements) \ {<<>>}

IntegerNumerals ==
    {<<"0">>, <<"1">>, <<"7">>, <<"1", "0">>, <<"4", "2">>, <<"1", "2", "3">>,
     <<"2", "1", "4", "7", "4", "8", "3", "6", "4", "7">>}

\* x=<n>;
IntegerSources == {<<"x", "=">> \o n \o <<";", "\n">> : n \in IntegerNumerals}

\* x = 2; print x;   true=true   a=true; print true   (a)=a
PipelineSources ==
    {<<"x", " ", "=", " ", "2", ";", " ", "p", "r", "i", "n", "t", " ", "x", ";">>,
     <<"t", "r", "u", "e", "=", "t", "r", "u", "e", "\n">>,
     <<"a", "=", "t", "r", "u", "e", ";", "p", "r", "i", "n", "t", " ", "t", "r", "u", "e", "\n">>,
     <<"(", "a", ")", "=", "a", "\n">>}

\* Main.cpp returns before lexing when the file is empty
Sources ==
    (LexemeSources \cup ExpressionSources \cup StatementSources \cup IntegerSources \cup PipelineSources) \ {<<>>}

LexerChunks ==
    {<<"a">>, <<"1">>, <<"0">>, <<"x">>, <<".">>, <<"\"">>, <<"'">>, <<"#">>, <<"#", "#", "#">>,
     <<"\n">>, <<" ">>, <<";">>, <<"_">>, <<"@">>}

LexerSources == Concatenations(LexerChunks, MaxChunks)

(***************************************************************************)
(* The pipeline of Main.cpp as a state machine.  The fields of the lexer,  *)
(* the parser and the analyzer are the variables; one step is one          *)
(* iteration of parseProgram's loop or one statement visited.              *)
(***************************************************************************)

Lexer == [input_ |-> input_, position_ |-> position_, readPosition_ |-> readPosition_, ch_ |-> ch_]

Parser ==
    [lexer |-> Lexer, currentToken_ |-> currentToken_, peekToken_ |-> peekToken_, errors_ |-> errors_,
     windowShifts |-> windowShifts]

Analyzer == [currentScope |-> currentScope, errors |-> errors, visited |-> visited]

\* the lexer's fields after a call
SetLexer(L) ==
    /\ position_' = L.position_
    /\ readPosition_' = L.readPosition_
    /\ ch_' = L.ch_

\* the parser's fields after a call
SetParser(p) ==
    /\ SetLexer(p.lexer)
    /\ currentToken_' = p.currentToken_
    /\ peekToken_' = p.peekToken_
    /\ errors_' = p.errors_
    /\ windowShifts' = p.windowShifts

\* the state when main has constructed lexer and parser
Constructed(p) ==
    /\ position_ = p.lexer.position_
    /\ readPosition_ = p.lexer.readPosition_
    /\ ch_ = p.lexer.ch_
    /\ currentToken_ = p.currentToken_
    /\ peekToken_ = p.peekToken_
    /\ errors_ = p.errors_
    /\ windowShifts = p.windowShifts

\* main has not constructed the generator, opened the output file or returned
GeneratorNotStarted ==
    /\ code_gen = CodeGeneratorUnset
    /\ generated = 0
    /\ output_file = [is_open |-> FALSE, text |-> <<>>]
    /\ exitStatus = -1

Init ==
    /\ input_ \in Sources
    /\ \E p \in {ParserNew(LexerNew(input_))} : Constructed(p)
    /\ lastToken = Token("ILLEGAL", <<>>)
    /\ pc = "parse"
    /\ program = <<>>
    /\ currentScope = SymbolTableNew
    /\ errors = <<>>
    /\ visited = <<>>
    /\ nextStmt = 0
    /\ GeneratorNotStarted

\* the state after one iteration of parseProgram's loop
IterationDone(r) ==
    /\ SetParser(r.p)
    /\ program' = r.statements

ParseProgramStep ==
    /\ pc = "parse"
    /\ currentToken_.type # "END_OF_FILE"
    /\ \E r \in {ParseProgramIteration(Parser, program)} : IterationDone(r)
    /\ UNCHANGED <<input_, lastToken, pc, currentScope, errors, nextStmt, visited>>
    /\ UNCHANGED <<code_gen, generated, output_file, exitStatus>>

ParseProgramReturn ==
    /\ pc = "parse"
    /\ currentToken_.type = "END_OF_FILE"
    /\ pc' = "parsed"
    /\ UNCHANGED <<input_, position_, readPosition_, ch_, lastToken, currentToken_, peekToken_, errors_,
                   windowShifts, program, currentScope, errors, nextStmt, visited>>
    /\ UNCHANGED <<code_gen, generated, output_file, exitStatus>>

ParserErrorsExit ==
    /\ pc = "parsed"
    /\ errors_ # <<>>
    /\ pc' = "exit_parser_errors"
    /\ UNCHANGED <<input_, position_, readPosition_, ch_, lastToken, currentToken_, peekToken_, errors_,
                   windowShifts, program, currentScope, errors, nextStmt, visited>>
    /\ exitStatus' = 1
    /\ UNCHANGED <<code_gen, generated, output_file>>

\* main going on to the analysis without looking at the parser's errors
AnalyzeBeginUnchecked ==
    /\ pc = "parsed"
    /\ pc' = "analyze"
    /\ UNCHANGED <<input_, position_, readPosition_, ch_, lastToken, currentToken_, peekToken_, errors_,
                   windowShifts, program, currentScope, errors, nextStmt, visited>>
    /\ UNCHANGED <<code_gen, generated, output_file, exitStatus>>

AnalyzeBegin ==
    /\ pc = "parsed"
    /\ errors_ = <<>>
    /\ pc' = "analyze"
    /\ UNCHANGED <<input_, position_, readPosition_, ch_, lastToken, currentToken_, peekToken_, errors_,
                   windowShifts, program, currentScope, errors, nextStmt, visited>>
    /\ UNCHANGED <<code_gen, generated, output_file, exitStatus>>

\* the state after stmt->accept(*this) for the statement at index nextStmt
StatementVisited(r) ==
    /\ program' = [program EXCEPT ![nextStmt + 1] = r.node]
    /\ currentScope' = r.a.currentScope
    /\ errors' = r.a.errors
    /\ visited' = r.a.visited
    /\ nextStmt' = nextStmt + 1

VisitProgramStatement ==
    /\ pc = "analyze"
    /\ nextStmt < Len(program)
    /\ \E r \in {Accept(Analyzer, program[nextStmt + 1])} : StatementVisited(r)
    /\ UNCHANGED <<input_, position_, readPosition_, ch_, lastToken, pc, currentToken_, peekToken_, errors_,
                   windowShifts>>
    /\ UNCHANGED <<code_gen, generated, output_file, exitStatus>>

AnalyzeReturn ==
    /\ pc = "analyze"
    /\ nextStmt = Len(program)
    /\ pc' = "analyzed"
    /\ UNCHANGED <<input_, position_, readPosition_, ch_, lastToken, currentToken_, peekToken_, errors_,
                   windowShifts, program, currentScope, errors, nextStmt, visited>>
    /\ UNCHANGED <<code_gen, generated, output_file, exitStatus>>

\* the unchanged state of lexer, parser and analyzer
FrontEndUnchanged ==
    UNCHANGED <<input_, position_, readPosition_, ch_, lastToken, currentToken_, peekToken_, errors_,
                windowShifts, program, currentScope, errors, nextStmt, visited>>

\* if (!semantic_errors.empty()) ... return 1;
SemanticErrorsExit ==
    /\ pc = "analyzed"
    /\ errors # <<>>
    /\ pc' = "exit_semantic_errors"
    /\ exitStatus' = 1
    /\ FrontEndUnchanged
    /\ UNCHANGED <<code_gen, generated, output_file>>

\* CodeGenerator code_gen; and generate() up to the call of visitProgram: the
\* platform is the one the program was built for
GenerateBegin ==
    /\ pc = "analyzed"
    /\ errors = <<>>
    /\ \E platform \in Platforms : code_gen' = emitMainPrologue(CodeGeneratorNew(platform))
    /\ pc' = "codegen"
    /\ FrontEndUnchanged
    /\ UNCHANGED <<generated, output_file, exitStatus>>

\* one iteration of visitProgram's loop
GenerateStatement ==
    /\ pc = "codegen"
    /\ generated < Len(program)
    /\ code_gen' = visitStatement(code_gen, program[generated + 1])
    /\ generated' = generated + 1
    /\ FrontEndUnchanged
    /\ UNCHANGED <<pc, output_file, exitStatus>>

\* visitProgram returns; emitMainEpilogue(); return ss.str();
GenerateReturn ==
    /\ pc = "codegen"
    /\ generated = Len(program)
    /\ code_gen' = emitMainEpilogue(code_gen)
    /\ pc' = "generated"
    /\ FrontEndUnchanged
    /\ UNCHANGED <<generated, output_file, exitStatus>>

\* if (!codegen_errors.empty()) ... return 1;
CodegenErrorsExit ==
    /\ pc = "generated"
    /\ code_gen.errors_ # <<>>
    /\ pc' = "exit_codegen_errors"
    /\ exitStatus' = 1
    /\ FrontEndUnchanged
    /\ UNCHANGED <<code_gen, generated, output_file>>

\* the output file opens: output_file << assembly_output; return 0;
WriteOutput ==
    /\ pc = "generated"
    /\ code_gen.errors_ = <<>>
    /\ output_file' = [is_open |-> TRUE, text |-> code_gen.ss]
    /\ pc' = "exit_ok"
    /\ exitStatus' = 0
    /\ FrontEndUnchanged
    /\ UNCHANGED <<code_gen, generated>>

\* the output file does not open: return 1;
OutputNotOpened ==
    /\ pc = "generated"
    /\ code_gen.errors_ = <<>>
    /\ pc' = "exit_output_not_opened"
    /\ exitStatus' = 1
    /\ FrontEndUnchanged
    /\ UNCHANGED <<code_gen, generated, output_file>>

Next ==
    \/ ParseProgramStep
    \/ ParseProgramReturn
    \/ ParserErrorsExit
    \/ AnalyzeBegin
    \/ VisitProgramStatement
    \/ AnalyzeReturn
    \/ SemanticErrorsExit
    \/ GenerateBegin
    \/ GenerateStatement
    \/ GenerateReturn
    \/ CodegenErrorsExit
    \/ WriteOutput
    \/ OutputNotOpened

Spec == Init /\ [][Next]_vars

\* main runs to its end: no step that is enabled is postponed for ever
FairSpec == Init /\ [][Next]_vars /\ WF_vars(Next)

(***************************************************************************)
(* The lexer on its own: a caller that keeps calling nextToken             *)
(***************************************************************************)

\* the state when a lexer is constructed
LexerConstructed(L) ==
    /\ position_ = L.position_
    /\ readPosition_ = L.readPosition_
    /\ ch_ = L.ch_

InitLexer ==
    /\ input_ \in LexerSources
    /\ \E L \in {LexerNew(input_)} : LexerConstructed(L)
    /\ lastToken = Token("ILLEGAL", <<>>)
    /\ pc = "lexing"
    /\ currentToken_ = Token("ILLEGAL", <<>>)
    /\ peekToken_ = Token("ILLEGAL", <<>>)
    /\ errors_ = <<>>
    /\ windowShifts = 0
    /\ program = <<>>
    /\ currentScope = SymbolTableNew
    /\ errors = <<>>
    /\ visited = <<>>
    /\ nextStmt = 0
    /\ GeneratorNotStarted

\* the state after a call of nextToken
TokenReturned(r) ==
    /\ SetLexer(r.lexer)
    /\ lastToken' = r.tok

LexerNextToken ==
    /\ pc = "lexing"
    /\ \E r \in {NextToken(Lexer)} : TokenReturned(r)
    /\ UNCHANGED <<input_, pc, currentToken_, peekToken_, errors_, windowShifts, program, currentScope,
                   errors, nextStmt, visited>>
    /\ UNCHANGED <<code_gen, generated, output_file, exitStatus>>

NextLexer == LexerNextToken

SpecLexer == InitLexer /\ [][NextLexer]_vars

(***************************************************************************)
(* The analyzer on its own: analyze(program) called on a Program built     *)
(* from the node constructors of ast.h                                     *)
(***************************************************************************)

MaxOperands == 3

MaxDeclarations == 1

AstAtoms == {IntegerLiteral(0), IntegerLiteral(1), BooleanLiteral(TRUE), IdentifierExpr(<<"a">>)}

\* the operands a chain is extended by after its first two
AstOuterOperands == {IntegerLiteral(0), IdentifierExpr(<<"a">>)}

AstOperators == {"PLUS", "SLASH"}

RECURSIVE LeftChains(_)
\* ((x o y) o z): n operands, nested to the left
LeftChains(n) ==
    IF n = 1 THEN AstAtoms
    ELSE {BinaryExpression(l, o, r) :
              l \in LeftChains(n - 1), o \in AstOperators, r \in IF n = 2 THEN AstAtoms ELSE AstOuterOperands}

RECURSIVE RightChains(_)
\* (x o (y o z)): n operands, nested to the right
RightChains(n) ==
    IF n = 1 THEN AstAtoms
    ELSE {BinaryExpression(l, o, r) :
              l \in IF n = 2 THEN AstAtoms ELSE AstOuterOperands, o \in AstOperators, r \in RightChains(n - 1)}

AstExpressions == UNION {LeftChains(n) \cup RightChains(n) : n \in 1..MaxOperands}

AstStatements ==
    {AssignmentStatement(IdentifierExpr(n), e) : n \in {<<"a">>, <<"b">>}, e \in AstExpressions}
        \cup {ExpressionStatement(e) : e \in AstExpressions}
        \cup {PrintStatement(e) : e \in AstExpressions}

\* a = 1, a = true, and a = a, which is in error when it comes first
AstDeclarations ==
    {AssignmentStatement(IdentifierExpr(<<"a">>), v) : v \in {IntegerLiteral(1), BooleanLiteral(TRUE), IdentifierExpr(<<"a">>)}}

RECURSIVE SequencesOf(_, _)
\* the sequences of at most k of the items
SequencesOf(items, k) ==
    IF k = 0 THEN {<<>>}
    ELSE {<<>>} \cup {<<item>> \o rest : item \in items, rest \in SequencesOf(items, k - 1)}

MaxReassignments == 3

\* the assignments a name is defined and assigned again by: a valid literal of
\* either type, another name, and the name itself
AstReassignments ==
    AstDeclarations
        \cup {AssignmentStatement(IdentifierExpr(<<"b">>), IntegerLiteral(1)),
              AssignmentStatement(IdentifierExpr(<<"a">>), IdentifierExpr(<<"b">>))}

\* some assignments to a, then any one statement; or a sequence of
\* assignments alone
AstPrograms ==
    {declarations \o statement :
        declarations \in SequencesOf(AstDeclarations, MaxDeclarations),
        statement \in {<<>>} \cup {<<s>> : s \in AstStatements}}
        \cup SequencesOf(AstReassignments, MaxReassignments)

InitAnalyzer ==
    /\ program \in AstPrograms
    /\ pc = "analyze"
    /\ currentScope = SymbolTableNew
    /\ errors = <<>>
    /\ visited = <<>>
    /\ nextStmt = 0
    /\ input_ = <<>>
    /\ \E L \in {LexerNew(input_)} : LexerConstructed(L)
    /\ lastToken = Token("ILLEGAL", <<>>)
    /\ currentToken_ = Token("ILLEGAL", <<>>)
    /\ peekToken_ = Token("ILLEGAL", <<>>)
    /\ errors_ = <<>>
    /\ windowShifts = 0
    /\ GeneratorNotStarted

NextAnalyzer ==
    \/ VisitProgramStatement
    \/ AnalyzeReturn

SpecAnalyzer == InitAnalyzer /\ [][NextAnalyzer]_vars

(***************************************************************************)
(* The generator on its own: generate(program) called on a Program that    *)
(* analyze() has annotated, whether or not analysis found errors           *)
(***************************************************************************)

MaxGenerated == 3

RECURSIVE VisitProgramFrom(_, _, _)
\* visit(Program&) from the statement at index k - 1 on: the analyzer and the
\* statements as annotated
VisitProgramFrom(a0, statements, k) ==
    IF k > Len(statements) THEN [a |-> a0, statements |-> statements]
    ELSE The({VisitProgramFrom(r.a, [statements EXCEPT ![k] = r.node], k + 1) : r \in {Accept(a0, statements[k])}})

\* SemanticAnalyzer semantic_analyzer; semantic_analyzer.analyze(program);
Analyze(statements) ==
    VisitProgramFrom([currentScope |-> SymbolTableNew, errors |-> <<>>, visited |-> <<>>], statements, 1)

\* (b + 1) * c
NestedProduct ==
    BinaryExpression(BinaryExpression(IdentifierExpr(<<"b">>), "PLUS", IntegerLiteral(1)), "ASTERISK",
                     IdentifierExpr(<<"c">>))

\* 2 - (1 / 2)
NestedDifference ==
    BinaryExpression(IntegerLiteral(2), "MINUS", BinaryExpression(IntegerLiteral(1), "SLASH", IntegerLiteral(2)))

\* (a = 1) + 2, with the infix = the parser accepts
AssignedSum ==
    BinaryExpression(BinaryExpression(IdentifierExpr(<<"a">>), "ASSIGN", IntegerLiteral(1)), "PLUS", IntegerLiteral(2))

CodegenStatements ==
    {AssignmentStatement(IdentifierExpr(<<"a">>), IntegerLiteral(2)),
     AssignmentStatement(IdentifierExpr(<<"b">>), BooleanLiteral(TRUE)),
     AssignmentStatement(IdentifierExpr(<<"b">>), NestedDifference),
     AssignmentStatement(IdentifierExpr(<<"c">>), IdentifierExpr(<<"a">>)),
     AssignmentStatement(IdentifierExpr(<<"a">>), NestedProduct),
     ExpressionStatement(IdentifierExpr(<<"c">>)),
     PrintStatement(IdentifierExpr(<<"a">>)),
     PrintStatement(BinaryExpression(IdentifierExpr(<<"c">>), "PLUS", IntegerLiteral(1))),
     PrintStatement(BooleanLiteral(TRUE)),
     ExpressionStatement(AssignedSum)}

CodegenPrograms == SequencesOf(CodegenStatements, MaxGenerated)

\* the state when analyze() has returned r and generate() is about to call
\* visitProgram in a build for the platform
GenerateEntered(r, platform) ==
    /\ program = r.statements
    /\ currentScope = r.a.currentScope
    /\ errors = r.a.errors
    /\ visited = r.a.visited
    /\ nextStmt = Len(r.statements)
    /\ code_gen = emitMainPrologue(CodeGeneratorNew(platform))

InitCodegen ==
    /\ \E source \in CodegenPrograms, platform \in Platforms : GenerateEntered(Analyze(source), platform)
    /\ pc = "codegen"
    /\ generated = 0
    /\ output_file = [is_open |-> FALSE, text |-> <<>>]
    /\ exitStatus = -1
    /\ input_ = <<>>
    /\ \E L \in {LexerNew(input_)} : LexerConstructed(L)
    /\ lastToken = Token("ILLEGAL", <<>>)
    /\ currentToken_ = Token("ILLEGAL", <<>>)
    /\ peekToken_ = Token("ILLEGAL", <<>>)
    /\ errors_ = <<>>
    /\ windowShifts = 0

NextCodegen ==
    \/ GenerateStatement
    \/ GenerateReturn

SpecCodegen == InitCodegen /\ [][NextCodegen]_vars

(***************************************************************************)
(* Properties                                                              *)
(***************************************************************************)

\* C1: parseProgram terminates on every source, well-formed or malformed: each
\* iteration of its loop shifts the token window by at least one token, and
\* eventually the current token is END_OF_FILE and parseProgram has returned.
C1_ParseProgramTerminates ==
    /\ [][(pc = "parse" /\ pc' = "parse") => windowShifts' > windowShifts]_vars
    /\ <>(pc = "parsed" /\ currentToken_.type = "END_OF_FILE")

\* parseProgram has returned from a malformed source after several iterations
C1_MalformedSourceParsed == pc = "parsed" /\ errors_ # <<>> /\ windowShifts > 3

\* C2: when parseProgram returns the lexer cursor is at the end of the source,
\* and the parser never holds an END_OF_FILE token while source characters
\* are still unread.
C2_WholeSourceConsumed ==
    /\ pc = "parsed" => readPosition_ = Len(input_)
    /\ (pc = "parse" /\ (currentToken_.type = "END_OF_FILE" \/ peekToken_.type = "END_OF_FILE"))
           => readPosition_ = Len(input_)

\* C3: every call of Lexer::nextToken that returns a token other than
\* END_OF_FILE strictly increases readPosition_, for every class of token.
\* It is stated of the calls made while characters are still unread: once
\* readPosition_ is the length of the source it cannot increase.
C3_TokenAdvancesCursor ==
    [][(pc = "lexing" /\ readPosition_ < Len(input_) /\ lastToken'.type # "END_OF_FILE")
          => readPosition_' > readPosition_]_vars

\* the cursor has reached the end of the source: an advance() has found
\* nothing left to read
AtEndOfSource == ch_ = NUL /\ readPosition_ = Len(input_)

\* C4: once the cursor has reached the end of the source, a call of
\* Lexer::nextToken returns END_OF_FILE with an empty literal and leaves ch_,
\* position_ and readPosition_ as they were.
C4_IdempotentAtEnd ==
    [][(pc = "lexing" /\ AtEndOfSource)
          => /\ lastToken' = Token("END_OF_FILE", <<>>)
             /\ <<ch_, position_, readPosition_>>' = <<ch_, position_, readPosition_>>]_vars

\* nextToken has been called at the end of a source that is not empty
C4_CalledAtEnd == pc = "lexing" /\ AtEndOfSource /\ lastToken.type = "END_OF_FILE" /\ Len(input_) > 1

\* the numeral n of the source x=<n>;
NumeralOfSource == SubSeq(input_, 3, Len(input_) - 2)

\* C5: for a decimal literal n on the right of an assignment, the lexer yields
\* INT with the digits of n as its literal, the parser yields IntegerLiteral n
\* without an error, and the analyzer resolves its type to INT.
C5_IntegerLiteralRoundTrip ==
    (input_ \in IntegerSources /\ pc # "parse") =>
        /\ NextToken(LexerNew(NumeralOfSource \o <<";">>)).tok = Token("INT", NumeralOfSource)
        /\ errors_ = <<>>
        /\ Len(program) = 1
        /\ program[1].kind = "AssignmentStatement"
        /\ program[1].value.kind = "IntegerLiteral"
        /\ program[1].value.value = DigitsValue(NumeralOfSource, 0)
        /\ pc = "analyzed" => program[1].value.resolvedType = "INT"

SumOperators == {"+", "-"}

ProductOperators == {"*", "/"}

\* the source a o1 b o2 c is parsed, o1 taken from ops1 and o2 from ops2
ParsedExpression(ops1, ops2) ==
    /\ pc = "parsed"
    /\ input_ \in ExpressionSources
    /\ input_[2] \in ops1
    /\ input_[4] \in ops2

\* the one statement of the program is the expression statement of a binary expression
RootIsBinary ==
    /\ errors_ = <<>>
    /\ Len(program) = 1
    /\ program[1].kind = "ExpressionStatement"
    /\ program[1].expression.kind = "BinaryExpression"

\* the tree of a o1 (b o2 c)
RightNested ==
    /\ RootIsBinary
    /\ program[1].expression.op = SingleCharToken(input_[2]).type
    /\ program[1].expression.left = IdentifierExpr(<<"a">>)
    /\ program[1].expression.right.kind = "BinaryExpression"
    /\ program[1].expression.right.op = SingleCharToken(input_[4]).type
    /\ program[1].expression.right.left = IdentifierExpr(<<"b">>)
    /\ program[1].expression.right.right.kind = "IdentifierExpr"

\* the tree of (a o1 b) o2 c
LeftNested ==
    /\ RootIsBinary
    /\ program[1].expression.op = SingleCharToken(input_[4]).type
    /\ program[1].expression.right.kind = "IdentifierExpr"
    /\ program[1].expression.left.kind = "BinaryExpression"
    /\ program[1].expression.left.op = SingleCharToken(input_[2]).type
    /\ program[1].expression.left.left = IdentifierExpr(<<"a">>)
    /\ program[1].expression.left.right = IdentifierExpr(<<"b">>)

\* C6: for a SUM operator followed by a PRODUCT operator, as in a + b * c, the
\* root of the tree is the SUM operator and its right child is the binary
\* expression of the PRODUCT operator.
C6_ProductBindsTighter == ParsedExpression(SumOperators, ProductOperators) => RightNested

\* a + b * c is parsed to a tree
C6_SumThenProductParsed ==
    /\ ParsedExpression({"+"}, {"*"})
    /\ RootIsBinary
    /\ program[1].expression.right.kind = "BinaryExpression"

\* C7: a chain of operators of equal precedence, as in a - b - c or a * b / c,
\* is parsed to a left-associative tree: the root is the last operator and its
\* left child is the binary expression of the operators before it.
C7_LeftAssociative ==
    /\ ParsedExpression(SumOperators, SumOperators) => LeftNested
    /\ ParsedExpression(ProductOperators, ProductOperators) => LeftNested

\* a * b / c is parsed to a tree
C7_ChainParsed ==
    /\ ParsedExpression({"*"}, {"/"})
    /\ RootIsBinary
    /\ program[1].expression.left.kind = "BinaryExpression"

\* C8: as an infix operator = binds loosest: its precedence is below that of
\* + - and of * /, and the root of the tree of a + b = c is the = node, whose
\* left child is a + b.
C8_AssignBindsLoosest ==
    ParsedExpression(SumOperators \cup ProductOperators, {"="}) =>
        /\ precedences["ASSIGN"] < precedences["PLUS"]
        /\ precedences["ASSIGN"] < precedences["ASTERISK"]
        /\ LeftNested

RECURSIVE WithAllSemicolons(_)
\* the text with a ; put before every line end that has none
WithAllSemicolons(text) ==
    IF text = <<>> THEN <<>>
    ELSE WithAllSemicolons(SubSeq(text, 1, Len(text) - 1))
             \o (IF text[Len(text)] = "\n" /\ Len(text) > 1 /\ text[Len(text) - 1] # ";"
                 THEN <<";", "\n">>
                 ELSE <<text[Len(text)]>>)

\* the parse of the source agrees with `full`, the parse of the text in which
\* every statement has its semicolon, and neither has an error
SameProgramNoErrors(full) ==
    /\ full.p.errors_ = <<>>
    /\ errors_ = <<>>
    /\ program = full.statements

OperandOf(stmt) ==
    IF stmt.kind = "AssignmentStatement" THEN stmt.value
    ELSE IF stmt.kind = "PrintStatement" THEN stmt.expression
    ELSE Null

\* an earlier statement of the program has assigned to the name
AssignedBefore(name, index) ==
    \E j \in 1..(index - 1) : program[j].kind = "AssignmentStatement" /\ program[j].identifier.name = name

\* when the operand is an identifier that an earlier statement assigned, the
\* member read through a pointer to Expression holds the declared type
OperandTypeIsDeclared(operand, index) ==
    (operand.kind = "IdentifierExpr" /\ AssignedBefore(operand.name, index))
        => operand.resolvedType = Resolve(currentScope, operand.name).declaredTokenType

\* C10: after analysis an identifier expression naming a variable in scope has,
\* for every consumer reading it through the Expression interface (the value
\* check of an assignment, the check of a print), the variable's declared type.
C10_IdentifierTypeVisible ==
    (pc \in {"analyze", "analyzed"} /\ nextStmt > 0)
        => OperandTypeIsDeclared(OperandOf(program[nextStmt]), nextStmt)

\* the type analysis wrote on an expression node: for an identifier the
\* member IdentifierExpr declares, which is the one its visit writes
TypeOf(expr) == IF expr.kind = "IdentifierExpr" THEN expr.IdentifierExpr_resolvedType ELSE expr.resolvedType

RECURSIVE BinaryNodes(_)
\* the binary expressions in an expression, one entry for each occurrence
BinaryNodes(expr) ==
    IF expr.kind = "BinaryExpression" THEN <<expr>> \o BinaryNodes(expr.left) \o BinaryNodes(expr.right)
    ELSE <<>>

\* the expression a statement holds
StatementExpression(stmt) == IF stmt.kind = "AssignmentStatement" THEN stmt.value ELSE stmt.expression

RECURSIVE VisitedBinaryNodes(_)
\* the binary expressions in the first k statements of the program
VisitedBinaryNodes(k) ==
    IF k = 0 THEN <<>>
    ELSE VisitedBinaryNodes(k - 1) \o BinaryNodes(StatementExpression(program[k]))

\* the entries of a sequence that satisfy: first component of a message is kind
ErrorsOfKind(kind) == {i \in DOMAIN errors : errors[i][1] = kind}

\* an operand has a valid type other than INT and the other one is not invalid
MixedOperands(node) ==
    /\ TypeOf(node.left) # "ILLEGAL"
    /\ TypeOf(node.right) # "ILLEGAL"
    /\ (TypeOf(node.left) # "INT" \/ TypeOf(node.right) # "INT")

\* what C11 asks of the binary expressions in `nodes`
IntegerOperandsChecked(nodes) ==
    /\ \A i \in DOMAIN nodes :
           nodes[i].resolvedType = "INT" => (TypeOf(nodes[i].left) = "INT" /\ TypeOf(nodes[i].right) = "INT")
    /\ \A i \in DOMAIN nodes : MixedOperands(nodes[i]) => nodes[i].resolvedType = "ILLEGAL"
    /\ Cardinality(ErrorsOfKind("Arithmetic operator expects integer operands"))
           = Cardinality({i \in DOMAIN nodes : MixedOperands(nodes[i])})

\* C11: a binary expression resolves to INT only if both operands resolve to
\* INT; when an operand has a valid non-integer type (a boolean literal as well
\* as a boolean variable) and the other operand is not invalid, the analyzer
\* records exactly one 'expects integer operands' error for the expression and
\* marks the node invalid.
C11_IntegerOperandsRequired ==
    (pc \in {"analyze", "analyzed"} /\ nextStmt > 0) => IntegerOperandsChecked(VisitedBinaryNodes(nextStmt))

\* a division by the literal 0
ZeroDivision(node) == node.op = "SLASH" /\ node.right.kind = "IntegerLiteral" /\ node.right.value = 0

\* what C12 asks of the binary expressions in `nodes`
DivisionsChecked(nodes) ==
    /\ \A i \in DOMAIN nodes : ZeroDivision(nodes[i]) => nodes[i].resolvedType = "ILLEGAL"
    /\ Cardinality(ErrorsOfKind("Division by zero detected"))
           = Cardinality({i \in DOMAIN nodes : ZeroDivision(nodes[i])})

\* C12: every division whose right operand is the integer literal 0 records a
\* division-by-zero error and has the invalid resolved type, whatever its left
\* operand and wherever it occurs; a division whose right operand is not the
\* literal 0 records no division-by-zero error.
C12_LiteralZeroDivisorFlagged ==
    (pc \in {"analyze", "analyzed"} /\ nextStmt > 0) => DivisionsChecked(VisitedBinaryNodes(nextStmt))

\* an assignment of (x / 0) / a has been analysed after a declaration of a:
\* a division by the literal 0 as the operand of a division by a variable
C12_NestedZeroDivisionVisited ==
    /\ pc = "analyzed"
    /\ nextStmt = 2
    /\ program[2].kind = "AssignmentStatement"
    /\ program[2].value.kind = "BinaryExpression"
    /\ program[2].value.op = "SLASH"
    /\ program[2].value.right.kind = "IdentifierExpr"
    /\ program[2].value.left.kind = "BinaryExpression"
    /\ ZeroDivision(program[2].value.left)

\* an analysed expression that is well typed in the sense of C13: a literal, a
\* variable with a valid declared type, or a binary expression of type INT
WellTyped(expr) ==
    \/ expr.kind \in {"IntegerLiteral", "BooleanLiteral"}
    \/ expr.kind = "IdentifierExpr" /\ TypeOf(expr) \in {"INT", "BOOL"}
    \/ expr.kind = "BinaryExpression" /\ TypeOf(expr) = "INT"

\* this step analyses an assignment to a name that is not in scope
NewNameAssigned ==
    /\ pc = "analyze"
    /\ nextStmt' = nextStmt + 1
    /\ program[nextStmt'].kind = "AssignmentStatement"
    /\ IsNull(Resolve(currentScope, program[nextStmt'].identifier.name))

\* the step has recorded no error, defined the target with the type of the
\* value and written that type on the target identifier
DefinedWithValueType(stmt) ==
    /\ errors' = errors
    /\ ~IsNull(Resolve(currentScope', stmt.identifier.name))
    /\ Resolve(currentScope', stmt.identifier.name).declaredTokenType = TypeOf(stmt.value)
    /\ TypeOf(stmt.identifier) = TypeOf(stmt.value)

\* C13: an assignment to a new name whose right-hand side is well typed (an
\* integer or boolean literal, a defined variable, or an integer binary
\* expression) records no error, defines the name with the type of the
\* right-hand side and sets the target identifier's resolved type to it.
C13_FirstAssignmentDeclares ==
    [][(NewNameAssigned /\ WellTyped(program'[nextStmt'].value)) => DefinedWithValueType(program'[nextStmt'])]_vars

\* this step analyses an assignment to a name that is in scope
DeclaredNameAssigned ==
    /\ pc = "analyze"
    /\ nextStmt' = nextStmt + 1
    /\ program[nextStmt'].kind = "AssignmentStatement"
    /\ ~IsNull(Resolve(currentScope, program[nextStmt'].identifier.name))

\* what C14 asks of the step that analysed stmt, declared being the type the
\* target was declared with
ReassignmentChecked(stmt, declared) ==
    /\ (TypeOf(stmt.value) \in {"INT", "BOOL"} /\ TypeOf(stmt.value) # declared)
           => /\ errors' = Append(errors, <<"Type mismatch in assignment", stmt.identifier.name>>)
              /\ TypeOf(stmt.identifier) = "ILLEGAL"
    /\ (TypeOf(stmt.value) \in {"INT", "BOOL"} /\ TypeOf(stmt.value) = declared) => errors' = errors

\* C14: an assignment to a declared name whose right-hand side resolves to a
\* valid type other than the declared one records exactly one type-mismatch
\* error and leaves the target identifier's resolved type invalid; an
\* assignment of a value of the declared type records no error.
C14_ReassignmentKeepsType ==
    [][DeclaredNameAssigned
           => ReassignmentChecked(program'[nextStmt'],
                                  Resolve(currentScope, program[nextStmt'].identifier.name).declaredTokenType)]_vars

RECURSIVE IdentifierNodes(_)
\* the identifier expressions in an expression, one entry for each occurrence
IdentifierNodes(expr) ==
    IF expr.kind = "IdentifierExpr" THEN <<expr>>
    ELSE IF expr.kind = "BinaryExpression" THEN IdentifierNodes(expr.left) \o IdentifierNodes(expr.right)
    ELSE <<>>

\* the number of messages of the kind in a list of errors
CountOfKind(list, kind) == Cardinality({i \in DOMAIN list : list[i][1] = kind})

\* the occurrences, in a list of identifier expressions, of names that are not
\* in scope
Unresolved(nodes) == {i \in DOMAIN nodes : IsNull(Resolve(currentScope, nodes[i].name))}

\* the step that analysed a statement has recorded one undefined-variable
\* error for each identifier in it that names nothing in scope, and has marked
\* each of them invalid; before are its identifiers before, after those after
UndefinedReported(before, after) ==
    /\ CountOfKind(errors', "Undefined variable")
           = CountOfKind(errors, "Undefined variable") + Cardinality(Unresolved(before))
    /\ \A i \in Unresolved(before) : TypeOf(after[i]) = "ILLEGAL" /\ after[i].resolvedType = "ILLEGAL"

\* C15: analysing `print y` where y was never assigned records exactly one
\* undefined-variable error, one for each occurrence of an identifier that
\* does not resolve, and marks the identifier's resolved type invalid.
C15_UndefinedVariableReported ==
    [][(pc = "analyze" /\ nextStmt' = nextStmt + 1)
           => UndefinedReported(IdentifierNodes(StatementExpression(program[nextStmt'])),
                                IdentifierNodes(StatementExpression(program'[nextStmt'])))]_vars

\* `print a` has been analysed in a program that never assigns to a, and one
\* undefined-variable error is recorded
C15_PrintOfUndefinedAnalysed ==
    /\ pc = "analyzed"
    /\ program = <<[PrintStatement(IdentifierExpr(<<"a">>)) EXCEPT !.expression.IdentifierExpr_resolvedType = "ILLEGAL"]>>
    /\ nextStmt = 1
    /\ CountOfKind(errors, "Undefined variable") = 1

\* the lines a step has added to the generator's stream
LinesAdded == SubSeq(code_gen'.ss, Len(code_gen.ss) + 1, Len(code_gen'.ss))

\* the errors a step has added to the generator's list
ErrorsAdded == SubSeq(code_gen'.errors_, Len(code_gen.errors_) + 1, Len(code_gen'.errors_))

\* the instructions that load the constant 0 into the accumulator
ZeroLoads ==
    {<<" ", " ", "m", "o", "v", " ", "r", "a", "x", ",", " ", "0">>, <<" ", " ", "m", "o", "v", " ", "e", "a", "x", ",", " ", "0">>, <<" ", " ", "x", "o", "r", " ", "r", "a", "x", ",", " ", "r", "a", "x">>, <<" ", " ", "x", "o", "r", " ", "e", "a", "x", ",", " ", "e", "a", "x">>}

\* the identifiers in the statement that have no stack slot when it is generated
WithoutSlot(nodes) == {i \in DOMAIN nodes : nodes[i].name \notin DOMAIN code_gen.symbolTable_}

\* the step that generated a statement has recorded an error and emitted a
\* load of zero for each identifier without a slot, and has gone on to the
\* next statement
ZeroSubstituted(nodes) ==
    /\ CountOfKind(ErrorsAdded, "Codegen Error: Undefined variable used") = Cardinality(WithoutSlot(nodes))
    /\ Cardinality({i \in DOMAIN LinesAdded : LinesAdded[i] \in ZeroLoads}) >= Cardinality(WithoutSlot(nodes))
    /\ pc' = "codegen"

\* C16: when the generator meets an identifier that has no stack slot it
\* records an error, emits an instruction that loads the constant zero into
\* the accumulator, and goes on emitting the rest of the statement, the
\* remaining statements and the epilogue.
C16_UndefinedVariableSubstituted ==
    [][(pc = "codegen" /\ generated' = generated + 1)
           => ZeroSubstituted(IdentifierNodes(StatementExpression(program[generated'])))]_vars

\* the names the first k statements of the program assign to
AssignedNames(k) ==
    {program[i].identifier.name : i \in {j \in 1..k : program[j].kind = "AssignmentStatement"}}

\* the index of the first statement that assigns to the name
FirstAssignment(name) ==
    CHOOSE i \in 1..Len(program) :
        /\ program[i].kind = "AssignmentStatement" /\ program[i].identifier.name = name
        /\ \A j \in 1..(i - 1) : ~(program[j].kind = "AssignmentStatement" /\ program[j].identifier.name = name)

\* the name is the k-th new name of the program
Rank(name) == Cardinality(AssignedNames(FirstAssignment(name)))

\* C17: after any sequence of assignment statements, with right-hand sides that
\* may hold nested binary expressions, each distinct name has exactly one stack
\* slot, the offsets are distinct multiples of 8 below the frame base, the k-th
\* new name has the offset -8*k, and the offset of a name never changes.
C17_SlotsAllocatedInOrder ==
    (pc \in {"codegen", "generated"})
        => /\ DOMAIN code_gen.symbolTable_ = AssignedNames(generated)
           /\ \A name \in DOMAIN code_gen.symbolTable_ : code_gen.symbolTable_[name].stackOffset = -8 * Rank(name)

\* three names have their slots, the second defined by an assignment of a
\* nested binary expression, the third after it
C17_ThreeNamesAfterNestedExpression ==
    /\ pc = "generated"
    /\ Cardinality(DOMAIN code_gen.symbolTable_) = 3
    /\ program[2].kind = "AssignmentStatement"
    /\ program[2].value.kind = "BinaryExpression"
    /\ program[2].value.right.kind = "BinaryExpression"
    /\ program[3].kind = "AssignmentStatement"
    /\ Rank(program[3].identifier.name) = 3

\* x = 2; print x;
SourceAssignAndPrint == <<"x", " ", "=", " ", "2", ";", " ", "p", "r", "i", "n", "t", " ", "x", ";">>

\* main has returned
Exited ==
    pc \in {"exit_parser_errors", "exit_semantic_errors", "exit_codegen_errors", "exit_ok", "exit_output_not_opened"}

\* the lines occur in the text in this order, other lines between them or not
RECURSIVE OccurInOrder(_, _)
OccurInOrder(lines, text) ==
    IF lines = <<>> THEN TRUE
    ELSE IF text = <<>> THEN FALSE
    ELSE IF Head(text) \in Head(lines) THEN OccurInOrder(Tail(lines), Tail(text))
    ELSE OccurInOrder(lines, Tail(text))

\* the literal 2 into the accumulator and from there into the first slot; the
\* first slot into the accumulator and from there into the first argument
\* register; the call of the helper that prints an integer
StoreLoadPrint ==
    <<{<<" ", " ", "m", "o", "v", " ", "r", "a", "x", ",", " ", "2">>},
      {<<" ", " ", "m", "o", "v", " ", "q", "w", "o", "r", "d", " ", "p", "t", "r", " ", "[", "r", "b", "p", "-", "8", "]", ",", " ", "r", "a", "x">>},
      {<<" ", " ", "m", "o", "v", " ", "r", "a", "x", ",", " ", "q", "w", "o", "r", "d", " ", "p", "t", "r", " ", "[", "r", "b", "p", "-", "8", "]">>},
      {<<" ", " ", "m", "o", "v", " ", "r", "d", "i", ",", " ", "r", "a", "x">>, <<" ", " ", "m", "o", "v", " ", "r", "c", "x", ",", " ", "r", "a", "x">>},
      {<<" ", " ", "c", "a", "l", "l", " ", "p", "r", "i", "n", "t", "_", "i", "n", "t">>, <<" ", " ", "c", "a", "l", "l", " ", "_", "p", "r", "i", "n", "t", "_", "i", "n", "t">>}>>

\* C18: the pipeline run on `x = 2; print x;` yields no analysis and no code
\* generation error, and an instruction sequence that holds, in this order, a
\* store of the literal 2 (through the accumulator) into the slot of x, a load
\* from that slot that ends in the first argument register, and a call of the
\* integer print helper.
C18_AssignThenPrintCompiled ==
    (input_ = SourceAssignAndPrint /\ Exited)
        => /\ errors = <<>>
           /\ code_gen.errors_ = <<>>
           /\ OccurInOrder(StoreLoadPrint, code_gen.ss)

\* C19: in the driver a stage runs only if every earlier stage ended with an
\* empty error list: analysis never starts after a parse error, code
\* generation never starts after a parse or a semantic error, the output file
\* is never written when code generation recorded an error, and the exit
\* status is not zero in each of these cases.
C19_StagesGatedByErrors ==
    /\ (nextStmt > 0 \/ pc \in {"analyze", "analyzed"}) => errors_ = <<>>
    /\ (code_gen # CodeGeneratorUnset \/ pc \in {"codegen", "generated"}) => (errors_ = <<>> /\ errors = <<>>)
    /\ output_file.is_open => (errors_ = <<>> /\ errors = <<>> /\ code_gen.errors_ = <<>>)
    /\ (Exited /\ (errors_ # <<>> \/ errors # <<>> \/ code_gen.errors_ # <<>>))
           => (exitStatus # 0 /\ ~output_file.is_open)

\* main has returned 1 after a code generation that recorded an error for a
\* program that parsed and analysed without errors; no file is written
C19_CodegenErrorStopsOutput ==
    /\ pc = "exit_codegen_errors"
    /\ code_gen.errors_ # <<>>
    /\ errors_ = <<>>
    /\ errors = <<>>
    /\ exitStatus = 1
    /\ ~output_file.is_open

RECURSIVE Unannotated(_)
\* the node as the parser builds it: every resolved type still ILLEGAL
Unannotated(node) ==
    CASE node.kind \in {"IntegerLiteral", "BooleanLiteral"} -> [node EXCEPT !.resolvedType = "ILLEGAL"]
      [] node.kind = "IdentifierExpr" ->
             [node EXCEPT !.resolvedType = "ILLEGAL", !.IdentifierExpr_resolvedType = "ILLEGAL"]
      [] node.kind = "BinaryExpression" ->
             [node EXCEPT !.resolvedType = "ILLEGAL", !.left = Unannotated(node.left),
                          !.right = Unannotated(node.right)]
      [] node.kind = "AssignmentStatement" ->
             [node EXCEPT !.identifier = Unannotated(node.identifier), !.value = Unannotated(node.value)]
      [] node.kind \in {"ExpressionStatement", "PrintStatement"} ->
             [node EXCEPT !.expression = Unannotated(node.expression)]

RECURSIVE SourceOrder(_)
\* a statement or expression and the expressions beneath it, each occurrence
\* once, a node before its operands and the left operand before the right;
\* the target of an assignment is typed by the assignment itself
SourceOrder(node) ==
    CASE node.kind = "BinaryExpression" -> <<node>> \o SourceOrder(node.left) \o SourceOrder(node.right)
      [] node.kind = "AssignmentStatement" -> <<node>> \o SourceOrder(node.value)
      [] node.kind \in {"ExpressionStatement", "PrintStatement"} -> <<node>> \o SourceOrder(node.expression)
      [] OTHER -> <<node>>

RECURSIVE ProgramOrder(_)
\* the nodes of the first k statements in source order
ProgramOrder(k) == IF k = 0 THEN <<>> ELSE ProgramOrder(k - 1) \o SourceOrder(Unannotated(program[k]))

Emitted(instruction) == <<" ", " ">> \o instruction

\* the text begins with the prefix
StartsWith(text, prefix) == Len(text) >= Len(prefix) /\ SubSeq(text, 1, Len(prefix)) = prefix

\* the quotient idiv leaves in rax: rounded towards zero
Quotient(a, b) ==
    IF a >= 0 /\ b > 0 THEN a \div b
    ELSE IF a < 0 /\ b > 0 THEN -((-a) \div b)
    ELSE IF a >= 0 /\ b < 0 THEN -(a \div (-b))
    ELSE (-a) \div (-b)

RECURSIVE NumeralValue(_)
\* the number a decimal numeral of an instruction stands for
NumeralValue(digits) ==
    IF digits = <<>> THEN 0
    ELSE 10 * NumeralValue(SubSeq(digits, 1, Len(digits) - 1)) + DigitValue(digits[Len(digits)])

\* the registers and the stack frame a run of the generated text works on: rsp
\* is counted from rbp, mem maps an offset from rbp to the value stored there,
\* and faulted says that a line was met that is no instruction or that traps
MachineNew == [rax |-> 0, rbx |-> 0, rsp |-> 0, mem |-> <<>>, faulted |-> FALSE]

\* the memory operands of the slots a frame can hold, with the given size
SlotOperand(size, offset) == size \o <<" ", "p", "t", "r", " ", "[", "r", "b", "p">> \o to_string(offset) \o <<"]">>

\* the offsets of the slots a program of this many statements can define
SlotOffsets(count) == {-8 * k : k \in 1..count}

\* the offset the slot instruction names, the instruction being one of the
\* candidates the offsets give
OffsetNamed(line, offsets, Candidate(_)) == CHOOSE offset \in offsets : line = Emitted(Candidate(offset))

\* the value below 256 the low byte of the accumulator holds
LowByte(value) == value % 256

\* the accumulator with its low byte replaced
WithLowByte(value, byte) == value - LowByte(value) + byte

StoreQword(offset) == <<"m", "o", "v", " ">> \o SlotOperand(<<"q", "w", "o", "r", "d">>, offset) \o <<",", " ", "r", "a", "x">>

StoreByte(offset) == <<"m", "o", "v", " ">> \o SlotOperand(<<"b", "y", "t", "e">>, offset) \o <<",", " ", "a", "l">>

LoadQword(offset) == <<"m", "o", "v", " ", "r", "a", "x", ",", " ">> \o SlotOperand(<<"q", "w", "o", "r", "d">>, offset)

LoadByte(offset) == <<"m", "o", "v", " ", "a", "l", ",", " ">> \o SlotOperand(<<"b", "y", "t", "e">>, offset)

LoadByteExtended(offset) == <<"m", "o", "v", "z", "x", " ", "r", "a", "x", ",", " ">> \o SlotOperand(<<"b", "y", "t", "e">>, offset)

\* the lines that leave the two registers and the frame as they are: labels
\* and directives, comments, the save and the restore of the caller's rbp, the
\* sign extension into rdx and the moves into an argument register
LeavesMachineAlone(line) ==
    \/ ~StartsWith(line, <<" ", " ">>)
    \/ StartsWith(line, <<" ", " ", "#", " ">>)
    \/ line \in {Emitted(<<"p", "u", "s", "h", " ", "r", "b", "p">>), Emitted(<<"c", "q", "o">>), Emitted(<<"m", "o", "v", " ", "r", "d", "i", ",", " ", "r", "a", "x">>), Emitted(<<"m", "o", "v", " ", "r", "c", "x", ",", " ", "r", "a", "x">>),
                 Emitted(<<"p", "o", "p", " ", "r", "b", "p">>), Emitted(<<"r", "e", "t">>)}

\* the machine after the instruction of the line
Execute(m0, line, offsets) ==
    The({(
        IF m.faulted THEN m
        ELSE IF LeavesMachineAlone(line) THEN m
        ELSE IF line \in {Emitted(<<"m", "o", "v", " ", "r", "b", "p", ",", " ", "r", "s", "p">>), Emitted(<<"m", "o", "v", " ", "r", "s", "p", ",", " ", "r", "b", "p">>)} THEN [m EXCEPT !.rsp = 0]
        ELSE IF line = Emitted(<<"p", "u", "s", "h", " ", "r", "a", "x">>)
        THEN [m EXCEPT !.rsp = m.rsp - 8, !.mem = ((m.rsp - 8) :> m.rax) @@ m.mem]
        ELSE IF line = Emitted(<<"p", "o", "p", " ", "r", "b", "x">>)
        THEN IF m.rsp \in DOMAIN m.mem THEN [m EXCEPT !.rbx = m.mem[m.rsp], !.rsp = m.rsp + 8]
             ELSE [m EXCEPT !.faulted = TRUE]
        ELSE IF StartsWith(line, Emitted(<<"s", "u", "b", " ", "r", "s", "p", ",", " ">>))
        THEN [m EXCEPT !.rsp = m.rsp - NumeralValue(SubSeq(line, 12, Len(line)))]
        ELSE IF StartsWith(line, Emitted(<<"a", "d", "d", " ", "r", "s", "p", ",", " ">>))
        THEN [m EXCEPT !.rsp = m.rsp + NumeralValue(SubSeq(line, 12, Len(line)))]
        ELSE IF StartsWith(line, Emitted(<<"m", "o", "v", " ", "r", "a", "x", ",", " ">>)) /\ Len(line) > 11 /\ IsDigit(line[12])
        THEN [m EXCEPT !.rax = NumeralValue(SubSeq(line, 12, Len(line)))]
        ELSE IF StartsWith(line, Emitted(<<"m", "o", "v", " ", "a", "l", ",", " ">>)) /\ Len(line) > 10 /\ IsDigit(line[11])
        THEN [m EXCEPT !.rax = WithLowByte(m.rax, NumeralValue(SubSeq(line, 11, Len(line))))]
        ELSE IF line = Emitted(<<"m", "o", "v", "z", "x", " ", "r", "a", "x", ",", " ", "a", "l">>) THEN [m EXCEPT !.rax = LowByte(m.rax)]
        ELSE IF line = Emitted(<<"m", "o", "v", " ", "e", "a", "x", ",", " ", "0">>) THEN [m EXCEPT !.rax = 0]
        ELSE IF line = Emitted(<<"a", "d", "d", " ", "r", "a", "x", ",", " ", "r", "b", "x">>) THEN [m EXCEPT !.rax = m.rax + m.rbx]
        ELSE IF line = Emitted(<<"s", "u", "b", " ", "r", "a", "x", ",", " ", "r", "b", "x">>) THEN [m EXCEPT !.rax = m.rax - m.rbx]
        ELSE IF line = Emitted(<<"i", "m", "u", "l", " ", "r", "b", "x">>) THEN [m EXCEPT !.rax = m.rax * m.rbx]
        ELSE IF line = Emitted(<<"i", "d", "i", "v", " ", "r", "b", "x">>)
        THEN IF m.rbx = 0 THEN [m EXCEPT !.faulted = TRUE] ELSE [m EXCEPT !.rax = Quotient(m.rax, m.rbx)]
        ELSE IF StartsWith(line, Emitted(<<"c", "a", "l", "l", " ">>)) THEN [m EXCEPT !.rax = 0]
        ELSE IF \E offset \in offsets : line = Emitted(StoreQword(offset))
        THEN [m EXCEPT !.mem = (OffsetNamed(line, offsets, StoreQword) :> m.rax) @@ m.mem]
        ELSE IF \E offset \in offsets : line = Emitted(StoreByte(offset))
        THEN [m EXCEPT !.mem = (OffsetNamed(line, offsets, StoreByte) :> LowByte(m.rax)) @@ m.mem]
        ELSE IF \E offset \in offsets : line = Emitted(LoadQword(offset)) /\ offset \in DOMAIN m.mem
        THEN [m EXCEPT !.rax = m.mem[OffsetNamed(line, offsets, LoadQword)]]
        ELSE IF \E offset \in offsets : line = Emitted(LoadByte(offset)) /\ offset \in DOMAIN m.mem
        THEN [m EXCEPT !.rax = WithLowByte(m.rax, LowByte(m.mem[OffsetNamed(line, offsets, LoadByte)]))]
        ELSE IF \E offset \in offsets : line = Emitted(LoadByteExtended(offset)) /\ offset \in DOMAIN m.mem
        THEN [m EXCEPT !.rax = LowByte(m.mem[OffsetNamed(line, offsets, LoadByteExtended)])]
        ELSE [m EXCEPT !.faulted = TRUE]
    ) : m \in {m0}})

RECURSIVE Run(_, _, _)
\* the machine after the lines, run from the first to the last
Run(m0, lines, offsets) ==
    IF lines = <<>> THEN m0
    ELSE The({Run(m, Tail(lines), offsets) : m \in {Execute(m0, Head(lines), offsets)}})

\* the lines a call adds to the stream: those of `after` beyond those of `before`
LinesOf(before, after) == SubSeq(after.ss, Len(before.ss) + 1, Len(after.ss))

RECURSIVE OrderedCode(_, _)
\* the code C21 asks for an expression: for a binary expression its comment,
\* the code of the right operand, push rax, the code of the left operand,
\* pop rbx and the instructions of the operator; for any other expression the
\* lines its own visit writes
OrderedCode(g, expr) ==
    IF expr.kind = "BinaryExpression"
    THEN LinesOf(g, emitComment(g, <<"B", "i", "n", "a", "r", "y", " ", "E", "x", "p", "r", "e", "s", "s", "i", "o", "n", ":", " ">> \o tokenTypeStrings[expr.op]))
             \o OrderedCode(g, expr.right)
             \o <<Emitted(<<"p", "u", "s", "h", " ", "r", "a", "x">>)>>
             \o OrderedCode(g, expr.left)
             \o <<Emitted(<<"p", "o", "p", " ", "r", "b", "x">>)>>
             \o LinesOf(g, OperatorEmitted(g, expr.op))
    ELSE LinesOf(g, visitExpression(g, expr))

RECURSIVE HasValue(_, _, _), ValueOf(_, _, _)
\* the expression has a value in the frame: its variables have slots that
\* hold a value and no division in it is by zero
HasValue(expr, symbols, mem) ==
    CASE expr.kind \in {"IntegerLiteral", "BooleanLiteral"} -> TRUE
      [] expr.kind = "IdentifierExpr" ->
             expr.name \in DOMAIN symbols /\ symbols[expr.name].stackOffset \in DOMAIN mem
      [] expr.kind = "BinaryExpression" ->
             /\ expr.op \in {"PLUS", "MINUS", "ASTERISK", "SLASH"}
             /\ HasValue(expr.left, symbols, mem)
             /\ HasValue(expr.right, symbols, mem)
             /\ expr.op = "SLASH" => ValueOf(expr.right, symbols, mem) # 0

\* the value of the expression in the frame
ValueOf(expr, symbols, mem) ==
    CASE expr.kind \in {"IntegerLiteral", "BooleanLiteral"} -> expr.value
      [] expr.kind = "IdentifierExpr" -> mem[symbols[expr.name].stackOffset]
      [] expr.op = "PLUS" -> ValueOf(expr.left, symbols, mem) + ValueOf(expr.right, symbols, mem)
      [] expr.op = "MINUS" -> ValueOf(expr.left, symbols, mem) - ValueOf(expr.right, symbols, mem)
      [] expr.op = "ASTERISK" -> ValueOf(expr.left, symbols, mem) * ValueOf(expr.right, symbols, mem)
      [] expr.op = "SLASH" -> Quotient(ValueOf(expr.left, symbols, mem), ValueOf(expr.right, symbols, mem))

\* the machine holds the value of the left operand in rax and that of the
\* right operand in rbx
OperandsHeld(m, node, symbols, mem) ==
    (~m.faulted /\ HasValue(node.left, symbols, mem) /\ HasValue(node.right, symbols, mem))
        => /\ m.rax = ValueOf(node.left, symbols, mem)
           /\ m.rbx = ValueOf(node.right, symbols, mem)

RECURSIVE OperandsInRegisters(_, _, _, _, _)
\* in the code of a statement, run on the machine m0, the operands of every
\* binary expression in expr are in the two registers when its operator
\* instruction is reached; the code of expr begins at the line `first`
OperandsInRegisters(g, m0, code, first, expr) ==
    expr.kind = "BinaryExpression" =>
        \A pushed \in {first + 1 + Len(OrderedCode(g, expr.right))} :
            \A popped \in {pushed + 1 + Len(OrderedCode(g, expr.left))} :
                /\ popped <= Len(code)
                /\ OperandsHeld(Run(m0, SubSeq(code, 1, popped), SlotOffsets(Len(program))), expr,
                                g.symbolTable_, m0.mem)
                /\ OperandsInRegisters(g, m0, code, first + 1, expr.right)
                /\ OperandsInRegisters(g, m0, code, pushed + 1, expr.left)

\* what C21 asks of the step that generated a statement holding expr: code
\* are the lines the step wrote, the first of them the statement's comment
BinaryEmittedInOrder(g, code, expr) ==
    /\ SubSeq(code, 2, 1 + Len(OrderedCode(g, expr))) = OrderedCode(g, expr)
    /\ \A m0 \in {Run(MachineNew, g.ss, SlotOffsets(Len(program)))} : OperandsInRegisters(g, m0, code, 2, expr)

\* C21: for every binary expression the generator emits, in this order, the
\* whole code of the right operand, push rax, the whole code of the left
\* operand, pop rbx and then the operator's instructions, nested operands
\* included; so when the operator instruction is reached the accumulator
\* holds the value of the left operand and rbx that of the right operand.
C21_RightPushedLeftEvaluated ==
    [][(pc = "codegen" /\ generated' = generated + 1)
           => BinaryEmittedInOrder(code_gen, LinesAdded, StatementExpression(program[generated']))]_vars

\* the order of emission alone
EmissionOrdered ==
    [][(pc = "codegen" /\ generated' = generated + 1)
           => \A expr \in {StatementExpression(program[generated'])} :
                  SubSeq(LinesAdded, 2, 1 + Len(OrderedCode(code_gen, expr))) = OrderedCode(code_gen, expr)]_vars

\* the line is an instruction whose destination is a stack slot
WritesSlot(line) ==
    \E size \in {<<"q", "w", "o", "r", "d">>, <<"d", "w", "o", "r", "d">>, <<"w", "o", "r", "d">>, <<"b", "y", "t", "e">>} : StartsWith(line, Emitted(<<"m", "o", "v", " ">> \o size \o <<" ", "p", "t", "r", " ", "[", "r", "b", "p">>))

\* the line is an instruction that reads the slot at the offset into the
\* accumulator: the memory operand is the source, rax or its byte view the
\* destination
ReadsSlot(line, offset) ==
    line \in {Emitted(LoadQword(offset)), Emitted(LoadByte(offset)), Emitted(LoadByteExtended(offset))}

\* the identifiers of the list that have a stack slot in the generator
WithSlot(g, nodes) == {i \in DOMAIN nodes : nodes[i].name \in DOMAIN g.symbolTable_}

\* what C22 asks of the lines `code` a step wrote for the statement: a read of
\* its slot for each identifier evaluated that has one, and no write of a slot
\* but the store that ends an assignment
SlotsOnlyRead(g, code, stmt, nodes) ==
    /\ \A i \in WithSlot(g, nodes) : \E k \in DOMAIN code : ReadsSlot(code[k], g.symbolTable_[nodes[i].name].stackOffset)
    /\ Cardinality({k \in DOMAIN code : \E offset \in SlotOffsets(Len(program)) : ReadsSlot(code[k], offset)})
           = Cardinality(WithSlot(g, nodes))
    /\ {k \in DOMAIN code : WritesSlot(code[k])} \subseteq (IF stmt.kind = "AssignmentStatement" THEN {Len(code)} ELSE {})

\* C22: evaluating an identifier expression whose variable has a slot emits a
\* read of that slot into the accumulator, the memory operand being the
\* source, and emits no instruction that writes a stack slot; the only writes
\* of slots are the stores that end assignment statements.
C22_IdentifierReadLoadsSlot ==
    [][(pc = "codegen" /\ generated' = generated + 1)
           => SlotsOnlyRead(code_gen, LinesAdded, program[generated'],
                            IdentifierNodes(StatementExpression(program[generated'])))]_vars

\* a call that returned null has appended to the error list: p is the parser
\* at the call, r what the call yields
NullWithError(p, r) == IsNull(r.node) => Len(r.p.errors_) > Len(p.errors_)

\* the parse functions called on the parser as it is, each where the current
\* token is one it is called for, return null only with an error appended
NullReturnsReported(p) ==
    /\ \A prec \in {LOWEST, SUM, PRODUCT, ASSIGN_PRECEDENCE} : NullWithError(p, ParseExpression(p, prec))
    /\ p.currentToken_.type \in DOMAIN prefixParseFns
           => NullWithError(p, CallPrefixFn(prefixParseFns[p.currentToken_.type], p))
    /\ p.currentToken_.type \in infixParseFns => NullWithError(p, ParseInfixExpression(p, IdentifierExpr(<<"a">>)))
    /\ NullWithError(p, ParseStatement(p))

\* C23: a prefix handler, an infix handler, parseExpression or a statement
\* parser that returns null has appended at least one message to the parser's
\* error list during the call; so every iteration of parseProgram's loop that
\* leaves the error list as it was has added a statement to the Program, and
\* parseProgram returns with an empty error list only if every top-level
\* construct produced a statement.
C23_NullReturnHasError ==
    /\ [](pc = "parse" => NullReturnsReported(Parser))
    /\ [][(pc = "parse" /\ windowShifts' # windowShifts /\ errors_' = errors_) => Len(program') = Len(program) + 1]_vars

\* parseProgram has returned after a grouped expression that lacked its
\* closing parenthesis and a token that begins no expression: two null
\* returns, two errors, no statement
C23_NullReturnsSeen ==
    /\ pc = "parsed"
    /\ program = <<>>
    /\ Len(errors_) = 2
    /\ errors_[1][1] = "Expected next token to be"
    /\ errors_[2][1] = "No prefix parse function for"

RECURSIVE MaximalRun(_)
\* the longest prefix of the text made of letters, digits and underscores
MaximalRun(text) ==
    IF text # <<>> /\ (IsAlnum(Head(text)) \/ Head(text) = "_") THEN <<Head(text)>> \o MaximalRun(Tail(text))
    ELSE <<>>

\* the kind C24 gives a run
KindOfRun(run) ==
    CASE run = <<"p", "r", "i", "n", "t">> -> "PRINT"
      [] run = <<"t", "r", "u", "e">> -> "TRUE"
      [] run = <<"f", "a", "l", "s", "e">> -> "FALSE"
      [] OTHER -> "IDENTIFIER"

\* the token returned is the whole run that begins where the lexer L stands
WholeRunReturned(L, tok) ==
    \A run \in {MaximalRun(SubSeq(L.input_, L.position_ + 1, Len(L.input_)))} : tok = Token(KindOfRun(run), run)

\* C24: when, after the ignorable text, the lexer stands on a letter or an
\* underscore, nextToken returns the whole maximal run of letters, digits and
\* underscores as the literal, with the kind PRINT, TRUE or FALSE when the run
\* spells that keyword and IDENTIFIER otherwise, also when the run ends where
\* the source ends.
C24_IdentifierIsWholeRun ==
    [][(pc = "lexing" /\ (IsAlpha(SkipIgnorable(Lexer).ch_) \/ SkipIgnorable(Lexer).ch_ = "_"))
           => WholeRunReturned(SkipIgnorable(Lexer), lastToken')]_vars

\* the same of the runs that are followed by another character
RunBeforeEndIsWhole ==
    [][(pc = "lexing" /\ (IsAlpha(SkipIgnorable(Lexer).ch_) \/ SkipIgnorable(Lexer).ch_ = "_")
            /\ ch_' # NUL)
           => WholeRunReturned(SkipIgnorable(Lexer), lastToken')]_vars

\* the errors a step of the analysis has added
AnalysisErrorsAdded == SubSeq(errors', Len(errors) + 1, Len(errors'))

\* an operand of the binary expression has the invalid type
InvalidOperand(node) == TypeOf(node.left) = "ILLEGAL" \/ TypeOf(node.right) = "ILLEGAL"

\* the messages visit(BinaryExpression&) and visit(IdentifierExpr&) record:
\* the errors that come from the expression tree and not from the statement
ExpressionErrorKinds ==
    {"Undefined variable", "Arithmetic operator expects integer operands", "Division by zero detected"}

\* the expression has one root cause of invalidity, an identifier that names
\* nothing in scope, beneath at least one binary expression: before is the
\* expression before the step, nodes its binary expressions after it
OneUndefinedBeneath(before, nodes) ==
    /\ nodes # <<>>
    /\ Cardinality(Unresolved(IdentifierNodes(before))) = 1
    /\ \A i \in DOMAIN nodes : ~ZeroDivision(nodes[i]) /\ ~MixedOperands(nodes[i])

\* what C25 asks of the step that analysed a statement: before is its
\* expression before the step, nodes the binary expressions in it after
InvalidityPropagated(before, nodes) ==
    /\ \A i \in DOMAIN nodes : InvalidOperand(nodes[i]) => nodes[i].resolvedType = "ILLEGAL"
    /\ CountOfKind(AnalysisErrorsAdded, "Arithmetic operator expects integer operands")
           <= Cardinality({i \in DOMAIN nodes : ~InvalidOperand(nodes[i])})
    /\ OneUndefinedBeneath(before, nodes)
           => Cardinality({i \in DOMAIN AnalysisErrorsAdded : AnalysisErrorsAdded[i][1] \in ExpressionErrorKinds}) = 1

\* C25: a binary expression with an operand whose resolved type is invalid is
\* marked invalid itself and records no operand-type error of its own, so one
\* root cause (an undefined variable deep in a nested expression) yields
\* exactly one error from the expression tree, however many binary
\* expressions are above it.
C25_InvalidOperandPropagates ==
    [][(pc = "analyze" /\ nextStmt' = nextStmt + 1)
           => InvalidityPropagated(StatementExpression(program[nextStmt']),
                                   BinaryNodes(StatementExpression(program'[nextStmt'])))]_vars

\* the expression statement (a + 0) + 0 has been analysed with a not in
\* scope: two binary expressions above the undefined variable, one error
C25_OneErrorUnderTwoAncestors ==
    /\ pc = "analyzed"
    /\ Len(program) = 1
    /\ Unannotated(program[1])
           = ExpressionStatement(BinaryExpression(BinaryExpression(IdentifierExpr(<<"a">>), "PLUS", IntegerLiteral(0)),
                                                  "PLUS", IntegerLiteral(0)))
    /\ program[1].expression.resolvedType = "ILLEGAL"
    /\ program[1].expression.left.resolvedType = "ILLEGAL"
    /\ errors = <<<<"Undefined variable", <<"a">>>>>>

\* the names of the byte registers of x86-64
ByteRegisters ==
    {<<"a", "l">>, <<"b", "l">>, <<"c", "l">>, <<"d", "l">>, <<"a", "h">>, <<"b", "h">>, <<"c", "h">>, <<"d", "h">>, <<"s", "i", "l">>, <<"d", "i", "l">>, <<"b", "p", "l">>, <<"s", "p", "l">>,
     <<"r", "8", "b">>, <<"r", "9", "b">>, <<"r", "1", "0", "b">>, <<"r", "1", "1", "b">>, <<"r", "1", "2", "b">>, <<"r", "1", "3", "b">>, <<"r", "1", "4", "b">>, <<"r", "1", "5", "b">>}

\* the base registers the generator calls getRegisterPart with: the
\* accumulator in stores, loads and prints, rbx in visitBinaryExpression
BaseRegistersUsed == {<<"r", "a", "x">>, <<"r", "b", "x">>}

\* the instructions that move between the accumulator and the slot with the
\* size and the register view of the type
SizedSlotMoves(type, offset) ==
    IF type = "INT" THEN {Emitted(StoreQword(offset)), Emitted(LoadQword(offset))}
    ELSE {Emitted(StoreByte(offset)), Emitted(LoadByte(offset)), Emitted(LoadByteExtended(offset))}

\* the lines of the code that name the slot at the offset
LinesOfSlot(code, offset) ==
    {k \in DOMAIN code : \E size \in {<<"q", "w", "o", "r", "d">>, <<"d", "w", "o", "r", "d">>, <<"w", "o", "r", "d">>, <<"b", "y", "t", "e">>} :
        \E j \in 1..Len(code[k]) : StartsWith(SubSeq(code[k], j, Len(code[k])), SlotOperand(size, offset))}

\* what C26 asks of the lines a step wrote for a statement, g being the
\* generator before and after being the generator after: the store of an
\* assignment of an INT or BOOL value, and the access of each identifier
\* whose slot has the type INT or BOOL, have the size and the view of the type
ViewsSized(g, after, code, stmt, nodes) ==
    /\ (stmt.kind = "AssignmentStatement" /\ stmt.value.resolvedType \in {"INT", "BOOL"})
           => code[Len(code)] \in SizedSlotMoves(stmt.value.resolvedType,
                                                 after.symbolTable_[stmt.identifier.name].stackOffset)
    /\ \A i \in WithSlot(g, nodes) :
           g.symbolTable_[nodes[i].name].type \in {"INT", "BOOL"}
               => \A k \in LinesOfSlot(SubSeq(code, 1, Len(code) - 1), g.symbolTable_[nodes[i].name].stackOffset) :
                      code[k] \in SizedSlotMoves(g.symbolTable_[nodes[i].name].type,
                                                 g.symbolTable_[nodes[i].name].stackOffset)

\* C26: for a value of type INT the store and the load use rax with a qword
\* memory operand, for a value of type BOOL they use al (bl for the secondary
\* register) with a byte memory operand, and getRegisterPart(BOOL, r) is the
\* name of a byte register for each base register it is called with.
C26_RegisterViewsMatchType ==
    [][(pc = "codegen" /\ generated' = generated + 1)
           => /\ getRegisterPart("INT", <<"r", "a", "x">>) = <<"r", "a", "x">>
              /\ getRegSize("INT") = <<"q", "w", "o", "r", "d">>
              /\ getRegSize("BOOL") = <<"b", "y", "t", "e">>
              /\ getRegisterPart("BOOL", <<"r", "a", "x">>) = <<"a", "l">>
              /\ getRegisterPart("BOOL", <<"r", "b", "x">>) = <<"b", "l">>
              /\ \A base \in BaseRegistersUsed : getRegisterPart("BOOL", base) \in ByteRegisters
              /\ ViewsSized(code_gen, code_gen', LinesAdded, program[generated'],
                            IdentifierNodes(StatementExpression(program[generated'])))]_vars

\* the same of the steps in which no value and no slot has the type BOOL
IntegerViewsSized ==
    [][(pc = "codegen" /\ generated' = generated + 1
            /\ StatementExpression(program[generated']).resolvedType # "BOOL"
            /\ \A name \in DOMAIN code_gen'.symbolTable_ : code_gen'.symbolTable_[name].type # "BOOL")
           => /\ getRegisterPart("INT", <<"r", "a", "x">>) = <<"r", "a", "x">>
              /\ getRegSize("INT") = <<"q", "w", "o", "r", "d">>
              /\ getRegSize("BOOL") = <<"b", "y", "t", "e">>
              /\ ViewsSized(code_gen, code_gen', LinesAdded, program[generated'],
                            IdentifierNodes(StatementExpression(program[generated'])))]_vars

\* the operators visitBinaryExpression has instructions for
SupportedOperators == {"PLUS", "MINUS", "ASTERISK", "SLASH"}

\* the instructions that carry out an operator
OperatorInstructions ==
    {Emitted(<<"a", "d", "d", " ", "r", "a", "x", ",", " ", "r", "b", "x">>), Emitted(<<"s", "u", "b", " ", "r", "a", "x", ",", " ", "r", "b", "x">>), Emitted(<<"i", "m", "u", "l", " ", "r", "b", "x">>), Emitted(<<"i", "d", "i", "v", " ", "r", "b", "x">>)}

\* the comment that opens the code of a statement
StatementComment(stmt) ==
    CASE stmt.kind = "AssignmentStatement" -> <<" ", " ", "#", " ", "A", "s", "s", "i", "g", "n", "m", "e", "n", "t", ":", " ">> \o stmt.identifier.name
      [] stmt.kind = "ExpressionStatement" -> <<" ", " ", "#", " ", "E", "x", "p", "r", "e", "s", "s", "i", "o", "n", " ", "S", "t", "a", "t", "e", "m", "e", "n", "t">>
      [] stmt.kind = "PrintStatement" -> <<" ", " ", "#", " ", "P", "r", "i", "n", "t", " ", "S", "t", "a", "t", "e", "m", "e", "n", "t">>

\* a node of a class the dispatchers have no cast for
UnknownVariant == [kind |-> "ASTNode"]

\* a dispatcher given a node it does not recognise: one error, no line
UnrecognisedIsNoOp(g, after) == LinesOf(g, after) = <<>> /\ Len(after.errors_) = Len(g.errors_) + 1

\* what C27 asks of the step that generated a statement: nodes are the binary
\* expressions in it
UnsupportedReported(stmt, nodes) ==
    /\ CountOfKind(ErrorsAdded, "Unhandled binary operator in code generation")
           = Cardinality({i \in DOMAIN nodes : nodes[i].op \notin SupportedOperators})
    /\ Cardinality({k \in DOMAIN LinesAdded : LinesAdded[k] \in OperatorInstructions})
           = Cardinality({i \in DOMAIN nodes : nodes[i].op \in SupportedOperators})
    /\ LinesAdded # <<>>
    /\ LinesAdded[1] = StatementComment(stmt)
    /\ pc' = "codegen"

\* C27: for a binary operator it does not support (the infix =) the generator
\* records exactly one error for the node and emits no operator instruction
\* for it, a node the dispatchers do not recognise is one error and no line,
\* and the generator goes on: every following statement is emitted, then the
\* epilogue, and generate() returns the text.
C27_UnsupportedOperatorRecorded ==
    /\ [][(pc = "codegen" /\ generated' = generated + 1)
              => /\ UnsupportedReported(program[generated'], BinaryNodes(StatementExpression(program[generated'])))
                 /\ UnrecognisedIsNoOp(code_gen, visitStatement(code_gen, UnknownVariant))
                 /\ UnrecognisedIsNoOp(code_gen, visitExpression(code_gen, UnknownVariant))]_vars
    /\ [][(pc = "codegen" /\ generated = Len(program)) => pc' = "generated"]_vars
    /\ [](pc = "generated" => (generated = Len(program) /\ code_gen.ss[Len(code_gen.ss)] = Emitted(<<"r", "e", "t">>)))

\* generate() has returned the text of a program of three statements whose
\* first holds the infix =: one error for it, the code of the two statements
\* after it and the epilogue
C27_GeneratedPastUnsupported ==
    /\ pc = "generated"
    /\ Len(program) = 3
    /\ Unannotated(program[1]) = ExpressionStatement(AssignedSum)
    /\ Unannotated(program[2]) = AssignmentStatement(IdentifierExpr(<<"a">>), IntegerLiteral(2))
    /\ Unannotated(program[3]) = PrintStatement(BooleanLiteral(TRUE))
    /\ CountOfKind(code_gen.errors_, "Unhandled binary operator in code generation") = 1
    /\ OccurInOrder(<<{Emitted(<<"a", "d", "d", " ", "r", "a", "x", ",", " ", "r", "b", "x">>)}, {Emitted(<<"m", "o", "v", " ", "r", "a", "x", ",", " ", "2">>)},
                      {Emitted(<<"c", "a", "l", "l", " ", "p", "r", "i", "n", "t", "_", "b", "o", "o", "l">>), Emitted(<<"c", "a", "l", "l", " ", "_", "p", "r", "i", "n", "t", "_", "b", "o", "o", "l">>)}, {Emitted(<<"r", "e", "t">>)}>>,
                    code_gen.ss)

\* this step analyses a print statement
PrintAnalysed ==
    /\ pc = "analyze"
    /\ nextStmt' = nextStmt + 1
    /\ program[nextStmt'].kind = "PrintStatement"

\* the print errors the step recorded
PrintErrorsAdded == CountOfKind(AnalysisErrorsAdded, "PRINT statement argument has an unresolved or invalid type")

\* C28: a print statement records a 'PRINT statement argument' error exactly
\* when the type its operand resolved to is invalid: one error then and none
\* otherwise, so that printing an integer literal, a boolean literal, a
\* variable that was assigned a valid type or an integer binary expression
\* records no print error.
C28_PrintErrorIffInvalid ==
    [][PrintAnalysed
           => PrintErrorsAdded = IF TypeOf(program'[nextStmt'].expression) = "ILLEGAL" THEN 1 ELSE 0]_vars

\* the same for an operand that is no identifier
PrintOfLiteralOrBinary ==
    [][(PrintAnalysed /\ program[nextStmt'].expression.kind # "IdentifierExpr")
           => PrintErrorsAdded = IF TypeOf(program'[nextStmt'].expression) = "ILLEGAL" THEN 1 ELSE 0]_vars

\* the type each name in scope was declared with
DeclaredTypes(table) == [name \in DOMAIN table.store |-> table.store[name].declaredTokenType]

\* every name of the scope `before` is in the scope `after` with the type it
\* was declared with
DeclarationsKept(before, after) ==
    \A name \in DOMAIN before :
        name \in DOMAIN after /\ after[name] = before[name]

\* what C29 asks of the step that analysed the assignment stmt to a name
\* declared with the type `declared`
ReassignmentReported(stmt, declared) ==
    (TypeOf(stmt.value) \in {"INT", "BOOL"} /\ TypeOf(stmt.value) # declared)
        => /\ AnalysisErrorsAdded # <<>>
           /\ declared = "ILLEGAL" => CountOfKind(AnalysisErrorsAdded, "Type mismatch in assignment") = 1

\* C29: the type a name was declared with never changes during the analysis:
\* an assignment of another type to it records an error and leaves the
\* declared type, and a name first defined from an invalid right-hand side
\* stays invalid, so that every later assignment of a valid type to it
\* records a type mismatch.
C29_DeclaredTypeNeverChanges ==
    /\ [][DeclarationsKept(DeclaredTypes(currentScope), DeclaredTypes(currentScope'))]_vars
    /\ [][DeclaredNameAssigned
              => ReassignmentReported(program'[nextStmt'],
                                      Resolve(currentScope, program[nextStmt'].identifier.name).declaredTokenType)]_vars

\* the declared types alone: no step of the analysis changes one
DeclaredTypesKept == [][DeclarationsKept(DeclaredTypes(currentScope), DeclaredTypes(currentScope'))]_vars

\* the report of a mismatch where the value assigned is no identifier
LiteralReassignmentReported ==
    [][(DeclaredNameAssigned /\ program[nextStmt'].value.kind # "IdentifierExpr")
           => ReassignmentReported(program'[nextStmt'],
                                   Resolve(currentScope, program[nextStmt'].identifier.name).declaredTokenType)]_vars

\* a name defined from an invalid right-hand side has been assigned a literal
\* and the mismatch is on record, the name still declared invalid
InvalidNameReassigned ==
    /\ pc = "analyze"
    /\ nextStmt = 2
    /\ Unannotated(program[1]) = AssignmentStatement(IdentifierExpr(<<"a">>), IdentifierExpr(<<"a">>))
    /\ Unannotated(program[2]) = AssignmentStatement(IdentifierExpr(<<"a">>), IntegerLiteral(1))
    /\ CountOfKind(errors, "Type mismatch in assignment") = 1
    /\ Resolve(currentScope, <<"a">>).declaredTokenType = "ILLEGAL"

RECURSIVE PushesMatched(_, _)
\* in the lines every pop rbx takes back a push rax that is still open, and
\* no push rax is left open at the end; depth is the number open at the start
PushesMatched(lines, depth) ==
    IF lines = <<>> THEN depth = 0
    ELSE IF Head(lines) = Emitted(<<"p", "u", "s", "h", " ", "r", "a", "x">>) THEN PushesMatched(Tail(lines), depth + 1)
    ELSE IF Head(lines) = Emitted(<<"p", "o", "p", " ", "r", "b", "x">>) THEN depth > 0 /\ PushesMatched(Tail(lines), depth - 1)
    ELSE PushesMatched(Tail(lines), depth)

\* the number of lines that are the instruction
CountOfLine(lines, instruction) == Cardinality({k \in DOMAIN lines : lines[k] = Emitted(instruction)})

\* the pushes and pops of the code of a statement are those of its binary
\* expressions, one pair for each, and they match
PushesPaired(code, nodes) ==
    /\ CountOfLine(code, <<"p", "u", "s", "h", " ", "r", "a", "x">>) = Len(nodes)
    /\ CountOfLine(code, <<"p", "o", "p", " ", "r", "b", "x">>) = Len(nodes)
    /\ PushesMatched(code, 0)

\* the bytes the epilogue gives back for the variables: the number in the
\* add rsp that follows the epilogue's comment, none if another line follows
EpilogueBytes(text) ==
    The({(
        IF StartsWith(text[k + 1], Emitted(<<"a", "d", "d", " ", "r", "s", "p", ",", " ">>)) /\ text[k + 2] # Emitted(<<"m", "o", "v", " ", "r", "s", "p", ",", " ", "r", "b", "p">>)
        THEN NumeralValue(SubSeq(text[k + 1], 12, Len(text[k + 1])))
        ELSE IF StartsWith(text[k + 1], Emitted(<<"a", "d", "d", " ", "r", "s", "p", ",", " ">>)) /\ code_gen.targetPlatform_ # "PLATFORM_WINDOWS_MINGW"
        THEN NumeralValue(SubSeq(text[k + 1], 12, Len(text[k + 1])))
        ELSE 0
    ) : k \in {i \in DOMAIN text : text[i] = <<" ", " ", "#", " ", "M", "a", "i", "n", " ", "E", "p", "i", "l", "o", "g", "u", "e">>}})

\* C30: the generator's stack accounting is balanced: in the code of a
\* statement every push rax is matched by one pop rbx of the same binary
\* expression, at every statement boundary stackOffsetCounter_ is -8 times the
\* number of variables defined so far, and the epilogue gives back to rsp as
\* many bytes as the sub rsp, 8 reservations of the variables took.
C30_StackAccountingBalanced ==
    /\ [][(pc = "codegen" /\ generated' = generated + 1)
              => PushesPaired(LinesAdded, BinaryNodes(StatementExpression(program[generated'])))]_vars
    /\ [](pc \in {"codegen", "generated"}
              => /\ code_gen.stackOffsetCounter_ = -8 * Cardinality(DOMAIN code_gen.symbolTable_)
                 /\ CountOfLine(code_gen.ss, <<"s", "u", "b", " ", "r", "s", "p", ",", " ", "8">>) = Cardinality(DOMAIN code_gen.symbolTable_))
    /\ [](pc = "generated" => EpilogueBytes(code_gen.ss) = 8 * CountOfLine(code_gen.ss, <<"s", "u", "b", " ", "r", "s", "p", ",", " ", "8">>))

\* generate() has returned the text of a program that defines two variables,
\* the second from a nested binary expression: two reservations, two pairs of
\* push and pop, and an epilogue that gives back 16 bytes
C30_TwoSlotsGivenBack ==
    /\ pc = "generated"
    /\ Len(program) = 3
    /\ Unannotated(program[1]) = AssignmentStatement(IdentifierExpr(<<"a">>), IntegerLiteral(2))
    /\ Unannotated(program[2]) = AssignmentStatement(IdentifierExpr(<<"b">>), NestedDifference)
    /\ Unannotated(program[3]) = PrintStatement(IdentifierExpr(<<"a">>))
    /\ code_gen.stackOffsetCounter_ = -16
    /\ CountOfLine(code_gen.ss, <<"p", "u", "s", "h", " ", "r", "a", "x">>) = 2
    /\ CountOfLine(code_gen.ss, <<"s", "u", "b", " ", "r", "s", "p", ",", " ", "8">>) = 2
    /\ CountOfLine(code_gen.ss, <<"a", "d", "d", " ", "r", "s", "p", ",", " ", "1", "6">>) = 1

====
